---- MODULE Spec2Model ----
(***************************************************************************)
(* Quotation PDF resolution and regeneration: the interceptor-dispatched   *)
(* handler handleQuotationPDF, its record lookup cascade, the rebuild and  *)
(* the pointer update, over a database of Quotation and Inquiry records    *)
(* and a filename-keyed artifact store.                                    *)
(*                                                                         *)
(* Strings are sequences of one-character strings, so that the regular     *)
(* expressions and the case-insensitive substring search of the handler    *)
(* are computed on the characters.                                         *)
(***************************************************************************)
EXTENDS Integers, Sequences, FiniteSets, TLC

VARIABLES
  quotations,  \* the Quotation collection: id -> record
  inquiries,   \* the Inquiry collection: a set of records
  store,       \* uploads/quotations: filename -> content, for the files that exist
  reqs,        \* the quotation-PDF requests: slot -> the handler's locals and position
  lossCount,   \* files the ephemeral store has lost so far
  ptrWrites,   \* history: the pointer saves committed by rebuilds
  everStored,  \* history: the filenames that have had a file in the store
  handlerReady,   \* quotationPDFHandler has been assigned
  legacyObjectIds, \* the installed bson takes any 12-character string for an ObjectId
  drafts       \* the documents application code holds and saves: the document, isNew, history

vars == <<quotations, inquiries, store, reqs, lossCount, ptrWrites, everStored,
          handlerReady, legacyObjectIds, drafts>>

Null == <<"null">>

----------------------------------------------------------------------------
(* Characters and strings *)

S_quotation == <<"q","u","o","t","a","t","i","o","n">>
S_pdf == <<".","p","d","f">>
S_INQ == <<"I","N","Q">>
S_QUO == <<"Q","U","O">>

Digits == {"0","1","2","3","4","5","6","7","8","9"}

IsDigit(c) == c \in Digits

DigitVal(c) ==
  CASE c = "0" -> 0 [] c = "1" -> 1 [] c = "2" -> 2 [] c = "3" -> 3
    [] c = "4" -> 4 [] c = "5" -> 5 [] c = "6" -> 6 [] c = "7" -> 7
    [] c = "8" -> 8 [] c = "9" -> 9

\* parseInt on a string of decimal digits
RECURSIVE parseInt(_)
parseInt(s) ==
  IF Len(s) = 0 THEN 0
  ELSE 10 * parseInt(SubSeq(s, 1, Len(s) - 1)) + DigitVal(s[Len(s)])

\* case folding of the 'i' option, on the letters the filenames use
ToLower(c) ==
  CASE c = "Q" -> "q" [] c = "U" -> "u" [] c = "O" -> "o" [] c = "T" -> "t"
    [] c = "A" -> "a" [] c = "I" -> "i" [] c = "N" -> "n" [] c = "P" -> "p"
    [] c = "D" -> "d" [] c = "F" -> "f" [] c = "X" -> "x"
    [] OTHER -> c

\* s has the literal lit at position i
HasAt(s, i, lit) ==
  /\ i >= 1
  /\ i + Len(lit) - 1 <= Len(s)
  /\ SubSeq(s, i, i + Len(lit) - 1) = lit

\* end of the longest run of characters satisfying a class, starting at i
\* (i - 1 when the run is empty)
DigitRunEnd(s, i) ==
  CHOOSE j \in (i - 1)..Len(s) :
    /\ \A k \in i..j : IsDigit(s[k])
    /\ (j = Len(s) \/ ~IsDigit(s[j + 1]))

NonUnderscoreRunEnd(s, i) ==
  CHOOSE j \in (i - 1)..Len(s) :
    /\ \A k \in i..j : s[k] # "_"
    /\ (j = Len(s) \/ s[j + 1] = "_")

----------------------------------------------------------------------------
(* The regular expressions of the handler *)

\* the characters of the class [.*+?^${}()|[\]\\]
RegexMeta == {".", "*", "+", "?", "^", "$", "{", "}", "(", ")", "|", "[", "]", "\\"}

\* filename.replace(/[.*+?^${}()|[\]\\]/g, '\\$&'): the source of a regex
RECURSIVE EscapeRegExp(_)
EscapeRegExp(f) ==
  IF Len(f) = 0 THEN <<>>
  ELSE (IF Head(f) \in RegexMeta THEN <<"\\", Head(f)>> ELSE <<Head(f)>>)
       \o EscapeRegExp(Tail(f))

\* mutant: the filename is used as the regex unescaped
UnescapedPattern(f) == f

\* line 451: the $regex of the partial match
FuzzyPattern(f) == EscapeRegExp(f)

\* a regex source compiled to atoms: an escaped character and an ordinary
\* character are literals, an unescaped '.' matches any character
RECURSIVE RegexAtoms(_)
RegexAtoms(src) ==
  IF Len(src) = 0 THEN <<>>
  ELSE IF Head(src) = "\\" /\ Len(src) >= 2
       THEN <<[kind |-> "lit", ch |-> src[2]]>> \o RegexAtoms(SubSeq(src, 3, Len(src)))
       ELSE IF Head(src) = "."
            THEN <<[kind |-> "any", ch |-> "."]>> \o RegexAtoms(Tail(src))
            ELSE <<[kind |-> "lit", ch |-> Head(src)]>> \o RegexAtoms(Tail(src))

\* one atom against one character under $options: 'i'
AtomMatches(atom, c) == atom.kind = "any" \/ ToLower(atom.ch) = ToLower(c)

\* { $regex: src, $options: 'i' }: an unanchored search
RegexSearch(src, s) ==
  LET atoms == RegexAtoms(src) IN
  \E i \in 1..(Len(s) - Len(atoms) + 1) :
    \A k \in 1..Len(atoms) : AtomMatches(atoms[k], s[i + k - 1])

NoMatch == [matched |-> FALSE]

\* filename.match(/quotation_(INQ\d+)_(\d+)\.pdf/) at position i
InquiryMatchAt(f, i) ==
  LET a == i + Len(S_quotation) + 1 + Len(S_INQ)
      b == DigitRunEnd(f, a)
      c == b + 2
      d == DigitRunEnd(f, c)
  IN  /\ HasAt(f, i, S_quotation \o <<"_">> \o S_INQ)
      /\ b >= a
      /\ HasAt(f, b + 1, <<"_">>)
      /\ d >= c
      /\ HasAt(f, d + 1, S_pdf)

InquiryMatch(f) ==
  LET at == {i \in 1..Len(f) : InquiryMatchAt(f, i)} IN
  IF at = {} THEN NoMatch
  ELSE LET i == CHOOSE x \in at : \A y \in at : x <= y
           a == i + Len(S_quotation) + 1
           b == DigitRunEnd(f, a + Len(S_INQ))
       IN  [matched |-> TRUE,
            inquiryNumber |-> SubSeq(f, a, b),
            timestamp |-> parseInt(SubSeq(f, b + 2, DigitRunEnd(f, b + 2)))]

\* filename.match(/quotation-(\d+)-/) at position i
TimestampMatchAt(f, i) ==
  LET a == i + Len(S_quotation) + 1
      b == DigitRunEnd(f, a)
  IN  /\ HasAt(f, i, S_quotation \o <<"-">>)
      /\ b >= a
      /\ HasAt(f, b + 1, <<"-">>)

TimestampMatch(f) ==
  LET at == {i \in 1..Len(f) : TimestampMatchAt(f, i)} IN
  IF at = {} THEN NoMatch
  ELSE LET i == CHOOSE x \in at : \A y \in at : x <= y
           a == i + Len(S_quotation) + 1
       IN  [matched |-> TRUE, timestamp |-> parseInt(SubSeq(f, a, DigitRunEnd(f, a)))]

\* filename.match(/quotation_[^_]+_(\d+)\.pdf/) at position i
GeneratedTimestampMatchAt(f, i) ==
  LET a == i + Len(S_quotation) + 1
      b == NonUnderscoreRunEnd(f, a)
      c == b + 2
      d == DigitRunEnd(f, c)
  IN  /\ HasAt(f, i, S_quotation \o <<"_">>)
      /\ b >= a
      /\ HasAt(f, b + 1, <<"_">>)
      /\ d >= c
      /\ HasAt(f, d + 1, S_pdf)

GeneratedTimestampMatch(f) ==
  LET at == {i \in 1..Len(f) : GeneratedTimestampMatchAt(f, i)} IN
  IF at = {} THEN NoMatch
  ELSE LET i == CHOOSE x \in at : \A y \in at : x <= y
           b == NonUnderscoreRunEnd(f, i + Len(S_quotation) + 1)
       IN  [matched |-> TRUE, timestamp |-> parseInt(SubSeq(f, b + 2, DigitRunEnd(f, b + 2)))]

----------------------------------------------------------------------------
(* Bounds *)

MaxRequests == 2
MaxLoss == 1

----------------------------------------------------------------------------
(* The strings of the model *)

\* ObjectId hex strings
OidA == [i \in 1..24 |-> "a"]
OidB == [i \in 1..24 |-> "b"]

\* an inquiry number as the pre-validate hook writes it: INQ, yymmdd, 3 digits
InqNumA == S_INQ \o <<"2","5","1","0","3","1","7","8","9">>

\* the dates of the hooks, as yymmdd, and their 3-digit random numbers
Dates == {<<"2","5","1","0","3","1">>, <<"2","5","1","1","0","1">>}
Randoms == {<<"0","0","7">>, <<"7","8","9">>}

Stamp20000 == <<"2","0","0","0","0">>
Stamp40000 == <<"4","0","0","0","0">>

\* quotation_<inquiryNumber>_<timestamp>.pdf, the builder's format
GeneratedName(num, stamp) == S_quotation \o <<"_">> \o num \o <<"_">> \o stamp \o S_pdf

NameGen == GeneratedName(InqNumA, Stamp20000)
NameNew == GeneratedName(InqNumA, Stamp40000)
\* a cosmetic rename of NameGen: a prefix and another case
NameGenRenamed ==
  <<"v","2","-","Q","U","O","T","A","T","I","O","N","_">> \o InqNumA
    \o <<"_">> \o Stamp20000 \o <<".","P","D","F">>
\* quotation-<timestamp>-<random>.pdf, the upload format
UploadName(stamp) == S_quotation \o <<"-">> \o stamp \o <<"-","7">> \o S_pdf

NameTs == UploadName(Stamp20000)
\* NameTs with another character in the place of its dot
NameTsX == S_quotation \o <<"-">> \o Stamp20000 \o <<"-","7","x","p","d","f">>
\* quotation_<ref>_<timestamp>.pdf whose <ref> holds quotation-<timestamp>-
NameBoth ==
  S_quotation \o <<"_">> \o S_quotation \o <<"-">> \o Stamp20000 \o <<"-","_">>
    \o Stamp20000 \o S_pdf

QIds == {"Q1", "Q2"}

InqNumB == S_INQ \o <<"2","5","1","0","3","1","7","9","0">>

\* a string field that is not set (undefined in JavaScript)
Undefined == <<"undefined">>

\* a number field that is not set; the numbers of the documents are >= 0
NoNumber == -1

\* an items array that is not set
NoItems == <<[undefined |-> TRUE]>>

Steel == <<"S","t","e","e","l">>
Alu == <<"A","l","u">>
Zintec == <<"Z","i","n","t","e","c">>
T2mm == <<"2","m","m">>
T1_5 == <<"1",".","5">>

\* src/models/Quotation.js 36-45: an element of items; no field is required
Item(material, thickness, unitPrice) ==
  [partRef |-> Undefined, material |-> material, thickness |-> thickness,
   quantity |-> 5, unitPrice |-> unitPrice, remark |-> Undefined]

\* src/models/Inquiry.js 34-62: an element of parts; material, thickness and
\* quantity are required, price defaults to 0
Part(material, thickness, price) ==
  [partRef |-> Undefined, material |-> material, thickness |-> thickness,
   quantity |-> 5, price |-> price, remarks |-> Undefined]

InquiryA == [_id |-> OidA, inquiryNumber |-> InqNumA, parts |-> <<Part(Steel, T2mm, 0)>>]
InquiryB == [_id |-> OidB, inquiryNumber |-> InqNumB, parts |-> <<>>]

NoQuotation == "none"

\* mongoose.Types.ObjectId.isValid on a string: 24 hex characters, or, with
\* bson before version 6 (mongoose before 8), any string of 12 characters
HexChars == Digits \cup {"a","b","c","d","e","f","A","B","C","D","E","F"}

ObjectIdIsValid(s) ==
  \/ (legacyObjectIds /\ Len(s) = 12)
  \/ (Len(s) = 24 /\ \A i \in 1..24 : s[i] \in HexChars)

----------------------------------------------------------------------------
(* The queries of the record lookup *)

\* mutant: the window of the first search excludes its bounds
TimestampWindowExclusive == 5000 - 1

\* line 491, 492: the window of the quotation-<ts>-<rand> search, in ms
TimestampWindow == 5000
\* line 509, 510: the window of the quotation_<ref>_<ts> search, in ms
GeneratedWindow == 10000

\* Quotation.findOne({ quotationPdf: filename })
ExactMatches(f) == {q \in QIds : quotations[q].quotationPdf = f}

\* Quotation.findOne({ quotationPdf: { $regex: <escaped filename>, $options: 'i' } })
FuzzyMatches(f) ==
  {q \in QIds : /\ quotations[q].quotationPdf # Null
                /\ RegexSearch(FuzzyPattern(f), quotations[q].quotationPdf)}

\* Inquiry.findOne({ inquiryNumber: inquiryNumber })
InquiriesByNumber(num) == {i \in inquiries : i.inquiryNumber = num}

\* mutant: the reference is matched as an ObjectId only
QuotationsByObjectId(str) ==
  {q \in QIds : quotations[q].inquiryId = str /\ Len(str) = 24}

\* Quotation.findOne({ inquiryId: <string> })
QuotationsByInquiryId(str) == {q \in QIds : quotations[q].inquiryId = str}

\* mutant: the sort is ascending
OldestWithin(ts, w) ==
  LET inWindow == {q \in QIds : /\ quotations[q].createdAt >= ts - w
                                /\ quotations[q].createdAt <= ts + w}
  IN  {q \in inWindow :
         \A p \in inWindow : quotations[p].createdAt >= quotations[q].createdAt}

\* Quotation.findOne({ createdAt: { $gte: ts - w, $lte: ts + w } }).sort({ createdAt: -1 })
MostRecentWithin(ts, w) ==
  LET inWindow == {q \in QIds : /\ quotations[q].createdAt >= ts - w
                                /\ quotations[q].createdAt <= ts + w}
  IN  {q \in inWindow :
         \A p \in inWindow : quotations[p].createdAt <= quotations[q].createdAt}

\* mutant: a reference that finds no Inquiry falls back on any Inquiry
InquiriesOfQuotationOrAny(q) ==
  LET ref == quotations[q].inquiryId
      found == {i \in inquiries : i._id = ref \/ i.inquiryNumber = ref}
  IN IF found = {} THEN inquiries ELSE found

\* Inquiry.findById(quotation.inquiryId) or Inquiry.findOne({ inquiryNumber: ... })
InquiriesOfQuotation(q) ==
  LET ref == quotations[q].inquiryId IN
  IF ObjectIdIsValid(ref)
  THEN {i \in inquiries : i._id = ref}
  ELSE {i \in inquiries : i.inquiryNumber = ref}

----------------------------------------------------------------------------
(* Requests *)

NoContent == [q |-> NoQuotation, inquiry |-> Null]
UploadContent == [q |-> "upload", inquiry |-> Null]

\* an answer without a JSON body; about holds the quotationId and inquiryId
\* an error body names (lines 545-546)
NoBody == [success |-> "absent", message |-> "absent", error |-> "absent", about |-> NoContent]

\* the body { success: false, message, error } of an error answer; error is
\* the text of the underlying error, written as the call it came from
JsonError(message, error) ==
  [success |-> "false", message |-> message, error |-> error, about |-> NoContent]

NoResponse ==
  [status |-> 0, kind |-> "none", filename |-> Null, content |-> NoContent,
   contentType |-> "none", disposition |-> "none", body |-> NoBody]

\* a Date: the instant ms, in milliseconds, moved on by a number of days
DateAfter(ms, days) == [ms |-> ms, days |-> days]

\* pdfQuotationData before it is prepared
NoMeta == [totalAmount |-> -1, validUntil |-> DateAfter(-1, 0), terms |-> <<"null">>]

IdleReq ==
  [pc |-> "idle", filename |-> Null, quotation |-> NoQuotation, docPdf |-> Null,
   via |-> "none", foundInquiry |-> Null, inquiry |-> Null, pdfResult |-> Null,
   response |-> NoResponse,
   \* history: the queries run, the builder calls and pointer saves made, the
   \* requests in flight at arrival, what the existence checks saw, the
   \* awaited call that rejected
   tried |-> <<>>, nbuilds |-> 0, nwrites |-> 0, overlap |-> {},
   existedAtCheck |-> FALSE, observed |-> Null, threw |-> "none",
   \* the interceptor: how the request reached the handler, the time since
   \* it arrived while a timer of the interceptor is pending
   gate |-> "none", elapsed |-> 0,
   \* the part rows and the metadata prepared for the builder
   rows |-> <<>>, meta |-> NoMeta,
   \* the mount the request came in by and req.path below it
   mount |-> Null, path |-> Null,
   \* req.query.download
   download |-> Undefined,
   \* history: what the handler itself answered, where it was when the
   \* timeout of the interceptor fired
   outcome |-> "none", pcAtTimeout |-> "none"]

QueryPcs == {"exact", "fuzzy", "inquiry", "byInquiryId", "byInquiryNumber",
             "ts1", "ts2", "loadInquiry"}

InFlight == {p \in DOMAIN reqs : reqs[p].pc \notin {"idle", "done"}}

\* res.headersSent
HeadersSent(rec) == rec.response # NoResponse

S_true == <<"t","r","u","e">>

\* mutant: only download=true asks for an attachment
DispositionTrueOnly(rec) == IF rec.download = S_true THEN "attachment" ELSE "inline"

\* lines 397-399 and 601-603: the disposition the download query value selects
Disposition(rec) ==
  IF rec.download = S_true \/ rec.download = <<"1">> THEN "attachment" ELSE "inline"

\* the answers that send a file: lines 411-416 and 605-611
FileKinds == {"existing", "regenerated"}

\* the Content-Type of an answer: set for the file (lines 413, 607), or set
\* by res.json
ContentTypeOf(kind) == IF kind \in FileKinds THEN "application/pdf" ELSE "application/json"

\* the Content-Disposition of an answer: set before the file is sent (lines
\* 414, 608) and left in place when the send fails
DispositionOf(rec, kind) ==
  IF kind \in FileKinds \cup {"send-error"} THEN Disposition(rec) ELSE "none"

\* mutant: the catch answers with the message alone
BodyWithoutErrorText(rec, kind) ==
  IF kind \in FileKinds THEN NoBody
  ELSE JsonError("Error regenerating PDF", "absent")

\* the JSON body of an answer: lines 421-425, 521-525, 543-547, 587-590,
\* 614-618 and 629-634
BodyOf(rec, kind) ==
  CASE kind = "regenerate-error" ->
         JsonError("Error regenerating PDF", rec.threw)
    [] kind = "send-error" ->
         JsonError(IF rec.pc = "sendExisting" THEN "Error sending PDF file"
                   ELSE "Error sending regenerated PDF file", "send")
    [] kind = "file-not-created" ->
         JsonError("PDF generation failed - file not created", "absent")
    [] kind = "quotation-not-found" ->
         JsonError("Quotation PDF not found and cannot be regenerated", "absent")
    [] kind = "inquiry-not-found" ->
         [JsonError("Inquiry not found for quotation", "absent")
            EXCEPT !.about = [q |-> rec.quotation,
                              inquiry |-> quotations[rec.quotation].inquiryId]]
    [] OTHER -> NoBody

\* mutant: an answer after the headers are sent replaces the one sent
RespondAgain(rec, status, kind, name, content) ==
  [rec EXCEPT !.pc = "done",
              !.outcome = kind,
              !.response = [status |-> status, kind |-> kind,
                            filename |-> name, content |-> content,
                            contentType |-> ContentTypeOf(kind),
                            disposition |-> DispositionOf(rec, kind),
                            body |-> BodyOf(rec, kind)]]

\* the handler answers and ends; once the headers are sent a second answer
\* throws and is swallowed (lines 626-635, 643-654)
Respond(rec, status, kind, name, content) ==
  [rec EXCEPT !.pc = "done",
              !.outcome = kind,
              !.response = IF HeadersSent(rec) THEN @
                           ELSE [status |-> status, kind |-> kind,
                                 filename |-> name, content |-> content,
                                 contentType |-> ContentTypeOf(kind),
                                 disposition |-> DispositionOf(rec, kind),
                                 body |-> BodyOf(rec, kind)]]

\* the quotation document a query returned
Found(rec, q, via) ==
  [rec EXCEPT !.quotation = q, !.docPdf = quotations[q].quotationPdf,
              !.via = via, !.pc = "loadInquiry"]

\* mutant: the failed lookup is reported as a server error
NotFoundAsError(rec) == Respond(rec, 500, "regenerate-error", Null, NoContent)

\* lines 626-635: the catch of an awaited call that rejected
Caught(rec, what) ==
  Respond([rec EXCEPT !.threw = what], 500, "regenerate-error", Null, NoContent)

\* lines 519-527: no strategy found a quotation
NotFound(rec) == Respond(rec, 404, "quotation-not-found", rec.filename, NoContent)

\* lines 502-517, up to the query
AfterTimestamp(rec) ==
  IF GeneratedTimestampMatch(rec.filename).matched
  THEN [rec EXCEPT !.pc = "ts2"]
  ELSE NotFound(rec)

\* lines 483-499, up to the query
AfterInquiry(rec) ==
  IF TimestampMatch(rec.filename).matched
  THEN [rec EXCEPT !.pc = "ts1"]
  ELSE AfterTimestamp(rec)

\* mutant: the inquiry-number search is passed over
AfterFuzzySkipsInquiry(rec) == AfterInquiry(rec)

\* lines 456-480, up to the first query
AfterFuzzy(rec) ==
  IF InquiryMatch(rec.filename).matched
  THEN [rec EXCEPT !.pc = "inquiry"]
  ELSE AfterInquiry(rec)

Tried(r, what) == [reqs[r] EXCEPT !.tried = Append(@, what)]

Set(r, rec) == reqs' = [reqs EXCEPT ![r] = rec]

----------------------------------------------------------------------------
(* The handler, one action per step between two suspension points *)

\* mutant: the existence check looks in the wrong place and finds nothing
FileExistsNowhere(name) == FALSE

\* lines 410, 585: fs.existsSync
FileExists(name) == name \in DOMAIN store

\* the request reaches handleQuotationPDF: lines 394-410

Dispatch(rec, gate) ==
  [rec EXCEPT !.gate = gate,
              !.overlap = InFlight,
              !.existedAtCheck = (rec.filename \in DOMAIN store),
              !.pc = IF FileExists(rec.filename) THEN "sendExisting" ELSE "exact"]

\* lines 221-225: the interceptor finds the handler and calls it
Arrive(r) ==
  /\ reqs[r].pc = "idle"
  /\ \A p \in DOMAIN reqs : p < r => reqs[p].pc # "idle"
  /\ handlerReady
  /\ Set(r, Dispatch(reqs[r], "direct"))
  /\ UNCHANGED <<quotations, inquiries, store, lossCount, ptrWrites, everStored, handlerReady, legacyObjectIds, drafts>>

\* mutant: a file lost before the send is looked up and rebuilt
SendExistingOrRebuild(r) ==
  /\ reqs[r].pc = "sendExisting"
  /\ Set(r, IF FileExists(reqs[r].filename)
            THEN Respond(reqs[r], 200, "existing", reqs[r].filename,
                         store[reqs[r].filename])
            ELSE [reqs[r] EXCEPT !.pc = "exact"])
  /\ UNCHANGED <<quotations, inquiries, store, lossCount, ptrWrites, everStored, handlerReady, legacyObjectIds, drafts>>

\* mutant: the file that exists is sent without its bytes
SendExistingEmpty(r) ==
  /\ reqs[r].pc = "sendExisting"
  /\ Set(r, Respond(reqs[r], 200, "existing", reqs[r].filename, NoContent))
  /\ UNCHANGED <<quotations, inquiries, store, lossCount, ptrWrites, everStored, handlerReady, legacyObjectIds, drafts>>

\* res.sendFile of the file that existed at the check
SendExisting(r) ==
  /\ reqs[r].pc = "sendExisting"
  /\ Set(r, IF FileExists(reqs[r].filename)
            THEN Respond(reqs[r], 200, "existing", reqs[r].filename,
                         store[reqs[r].filename])
            ELSE Respond(reqs[r], 500, "send-error", reqs[r].filename, NoContent))
  /\ UNCHANGED <<quotations, inquiries, store, lossCount, ptrWrites, everStored, handlerReady, legacyObjectIds, drafts>>

ExactQuery(r) ==
  /\ reqs[r].pc = "exact"
  /\ LET rec == Tried(r, "exact")
         m == ExactMatches(rec.filename)
     IN  IF m = {} THEN Set(r, [rec EXCEPT !.pc = "fuzzy"])
         ELSE \E q \in m : Set(r, Found(rec, q, "exact"))
  /\ UNCHANGED <<quotations, inquiries, store, lossCount, ptrWrites, everStored, handlerReady, legacyObjectIds, drafts>>

FuzzyQuery(r) ==
  /\ reqs[r].pc = "fuzzy"
  /\ LET rec == Tried(r, "fuzzy")
         m == FuzzyMatches(rec.filename)
     IN  IF m = {} THEN Set(r, AfterFuzzy(rec))
         ELSE \E q \in m : Set(r, Found(rec, q, "fuzzy"))
  /\ UNCHANGED <<quotations, inquiries, store, lossCount, ptrWrites, everStored, handlerReady, legacyObjectIds, drafts>>

InquiryQuery(r) ==
  /\ reqs[r].pc = "inquiry"
  /\ LET rec == Tried(r, "inquiry")
         m == InquiriesByNumber(InquiryMatch(rec.filename).inquiryNumber)
     IN  IF m = {} THEN Set(r, AfterInquiry(rec))
         ELSE \E i \in m : Set(r, [rec EXCEPT !.foundInquiry = i._id,
                                              !.pc = "byInquiryId"])
  /\ UNCHANGED <<quotations, inquiries, store, lossCount, ptrWrites, everStored, handlerReady, legacyObjectIds, drafts>>

ByInquiryIdQuery(r) ==
  /\ reqs[r].pc = "byInquiryId"
  /\ LET rec == Tried(r, "byInquiryId")
         m == QuotationsByInquiryId(rec.foundInquiry)
     IN  IF m = {} THEN Set(r, [rec EXCEPT !.pc = "byInquiryNumber"])
         ELSE \E q \in m : Set(r, Found(rec, q, "byInquiryId"))
  /\ UNCHANGED <<quotations, inquiries, store, lossCount, ptrWrites, everStored, handlerReady, legacyObjectIds, drafts>>

ByInquiryNumberQuery(r) ==
  /\ reqs[r].pc = "byInquiryNumber"
  /\ LET rec == Tried(r, "byInquiryNumber")
         m == QuotationsByInquiryId(InquiryMatch(rec.filename).inquiryNumber)
     IN  IF m = {} THEN Set(r, AfterInquiry(rec))
         ELSE \E q \in m : Set(r, Found(rec, q, "byInquiryNumber"))
  /\ UNCHANGED <<quotations, inquiries, store, lossCount, ptrWrites, everStored, handlerReady, legacyObjectIds, drafts>>

TimestampQuery(r) ==
  /\ reqs[r].pc = "ts1"
  /\ LET rec == Tried(r, "ts1")
         m == MostRecentWithin(TimestampMatch(rec.filename).timestamp, TimestampWindow)
     IN  IF m = {} THEN Set(r, AfterTimestamp(rec))
         ELSE \E q \in m : Set(r, Found(rec, q, "ts1"))
  /\ UNCHANGED <<quotations, inquiries, store, lossCount, ptrWrites, everStored, handlerReady, legacyObjectIds, drafts>>

GeneratedTimestampQuery(r) ==
  /\ reqs[r].pc = "ts2"
  /\ LET rec == Tried(r, "ts2")
         m == MostRecentWithin(GeneratedTimestampMatch(rec.filename).timestamp,
                               GeneratedWindow)
     IN  IF m = {} THEN Set(r, NotFound(rec))
         ELSE \E q \in m : Set(r, Found(rec, q, "ts2"))
  /\ UNCHANGED <<quotations, inquiries, store, lossCount, ptrWrites, everStored, handlerReady, legacyObjectIds, drafts>>

\* a query of the lookup rejects: the catch of lines 626-635
QueryThrows(r) ==
  /\ reqs[r].pc \in QueryPcs
  /\ Set(r, Caught(reqs[r], "query"))
  /\ UNCHANGED <<quotations, inquiries, store, lossCount, ptrWrites, everStored, handlerReady, legacyObjectIds, drafts>>

\* mutant: only an undefined string gives way to the fallback
StrOrWhenUndefined(v, d) == IF v = Undefined THEN d ELSE v

\* v || d on a string field: undefined and '' give way to d
StrOr(v, d) == IF v = Undefined \/ v = <<>> THEN d ELSE v

\* v || d on a number field: undefined and 0 give way to d
NumOr(v, d) == IF v = NoNumber \/ v = 0 THEN d ELSE v

\* lines 554-561: the row of an element of quotation.items
ItemRow(item) ==
  [partRef |-> StrOr(item.partRef, <<>>),
   material |-> StrOr(item.material, Zintec),
   thickness |-> StrOr(item.thickness, T1_5),
   quantity |-> NumOr(item.quantity, 1),
   price |-> NumOr(item.unitPrice, 0),
   remarks |-> StrOr(item.remark, <<>>)]

\* lines 562-569: the row of an element of inquiry.parts
InquiryPartRow(part) ==
  [partRef |-> StrOr(part.partRef, <<>>),
   material |-> StrOr(part.material, Zintec),
   thickness |-> StrOr(part.thickness, T1_5),
   quantity |-> NumOr(part.quantity, 1),
   price |-> 0,
   remarks |-> StrOr(part.remarks, <<>>)]

\* mutant: an items array that is set is used even when it is empty
HasItemsArray(quotation) == quotation.items # NoItems

\* line 553: quotation.items && quotation.items.length > 0
HasItems(quotation) == quotation.items # NoItems /\ Len(quotation.items) > 0

\* lines 553-569: pdfQuotationData.parts
PartRows(quotation, inquiry) ==
  IF HasItems(quotation)
  THEN [k \in 1..Len(quotation.items) |-> ItemRow(quotation.items[k])]
  ELSE [k \in 1..Len(inquiry.parts) |-> InquiryPartRow(inquiry.parts[k])]

\* src/models/Quotation.js 83-86, src/SMS_SETUP_GUIDE.md 574: the default terms
StandardTerms ==
  <<"Standard manufacturing terms apply. Payment required before production begins.">>

\* line 573: the days of validity given to a Quotation without validUntil
DefaultValidityDays == 30

\* the time of the saves of the model, later than every createdAt
SaveInstant == 90000

\* the instants at which the handler may read the clock (Date.now(), line 573)
Clock == {SaveInstant, SaveInstant + 1000}

\* lines 571-574: totalAmount, validUntil and terms of pdfQuotationData
QuotationMeta(quotation, now) ==
  [totalAmount |-> quotation.totalAmount,
   validUntil |-> IF quotation.validUntil = NoNumber
                  THEN DateAfter(now, DefaultValidityDays)
                  ELSE DateAfter(quotation.validUntil, 0),
   terms |-> StrOr(quotation.terms, StandardTerms)]

\* mutant: a rebuild that failed keeps its quotation locked
LoadInquiryUnlessHeld(r) ==
  /\ reqs[r].pc = "loadInquiry"
  /\ \A p \in DOMAIN reqs \ {r} :
       ~(reqs[p].quotation = reqs[r].quotation /\ reqs[p].threw \in {"build", "save"})
  /\ LET rec == reqs[r]
         m == InquiriesOfQuotation(rec.quotation)
     IN  IF m = {}
         THEN Set(r, Respond(rec, 404, "inquiry-not-found", Null, NoContent))
         ELSE \E i \in m, now \in Clock :
                Set(r, [rec EXCEPT !.inquiry = i._id, !.pc = "build",
                                   !.nbuilds = @ + 1,
                                   !.rows = PartRows(quotations[rec.quotation], i),
                                   !.meta = QuotationMeta(quotations[rec.quotation], now)])
  /\ UNCHANGED <<quotations, inquiries, store, lossCount, ptrWrites, everStored, handlerReady, legacyObjectIds, drafts>>

\* lines 531-581: the inquiry is loaded and the builder is invoked
LoadInquiry(r) ==
  /\ reqs[r].pc = "loadInquiry"
  /\ LET rec == reqs[r]
         m == InquiriesOfQuotation(rec.quotation)
     IN  IF m = {}
         THEN Set(r, Respond(rec, 404, "inquiry-not-found", Null, NoContent))
         ELSE \E i \in m, now \in Clock :
                Set(r, [rec EXCEPT !.inquiry = i._id, !.pc = "build",
                                   !.nbuilds = @ + 1,
                                   !.rows = PartRows(quotations[rec.quotation], i),
                                   !.meta = QuotationMeta(quotations[rec.quotation], now)])
  /\ UNCHANGED <<quotations, inquiries, store, lossCount, ptrWrites, everStored, handlerReady, legacyObjectIds, drafts>>

----------------------------------------------------------------------------
(* The rebuild *)

\* the timestamps the builder may put in a filename
BuilderStamps == {Stamp20000, Stamp40000}

\* pdfService.generateQuotationPDF names its file quotation_<inquiryNumber>_<ts>.pdf
BuilderNames(inquiryId) ==
  {GeneratedName(i.inquiryNumber, st) : i \in {x \in inquiries : x._id = inquiryId},
                                        st \in BuilderStamps}

BuiltContent(rec) == [q |-> rec.quotation, inquiry |-> rec.inquiry]

\* line 581: the builder writes its file and returns its name
BuildWrites(r) ==
  /\ reqs[r].pc = "build"
  /\ \E c \in BuilderNames(reqs[r].inquiry) :
       /\ store' = [n \in DOMAIN store \cup {c} |->
                      IF n = c THEN BuiltContent(reqs[r]) ELSE store[n]]
       /\ everStored' = everStored \cup {c}
       /\ Set(r, [reqs[r] EXCEPT !.pdfResult = c, !.pc = "verify"])
  /\ UNCHANGED <<quotations, inquiries, lossCount, ptrWrites, handlerReady, legacyObjectIds, drafts>>

\* line 581: the builder returns a name without its file in place
BuildWithoutFile(r) ==
  /\ reqs[r].pc = "build"
  /\ \E c \in BuilderNames(reqs[r].inquiry) :
       Set(r, [reqs[r] EXCEPT !.pdfResult = c, !.pc = "verify"])
  /\ UNCHANGED <<quotations, inquiries, store, lossCount, ptrWrites, everStored, handlerReady, legacyObjectIds, drafts>>

\* line 581: the builder rejects: the catch of lines 626-635
BuildThrows(r) ==
  /\ reqs[r].pc = "build"
  /\ Set(r, Caught(reqs[r], "build"))
  /\ UNCHANGED <<quotations, inquiries, store, lossCount, ptrWrites, everStored, handlerReady, legacyObjectIds, drafts>>

\* mutant: the generated file is not verified
VerifyCreatedSkipped(name) == TRUE

\* line 585: fs.existsSync(pdfResult.filePath)
VerifyCreated(name) == FileExists(name)

\* line 595: pdfResult.fileName !== filename
ShouldUpdatePointer(rec) == rec.pdfResult # rec.filename

\* lines 584-598, up to the save: the handler resumes after the builder
Verify(r) ==
  /\ reqs[r].pc = "verify"
  /\ LET rec == [reqs[r] EXCEPT !.observed =
                               IF reqs[r].pdfResult \in DOMAIN store
                               THEN reqs[r].pdfResult ELSE Null]
     IN
     Set(r, IF ~VerifyCreated(rec.pdfResult)
            THEN Respond(rec, 500, "file-not-created", rec.pdfResult, NoContent)
            ELSE IF ShouldUpdatePointer(rec)
                 THEN [rec EXCEPT !.pc = "save"]
                 ELSE [rec EXCEPT !.pc = "sendRegenerated"])
  /\ UNCHANGED <<quotations, inquiries, store, lossCount, ptrWrites, everStored, handlerReady, legacyObjectIds, drafts>>

\* !v on a string field
IsFalsy(v) == v = Undefined \/ v = <<>>

\* src/models/Quotation.js 107-112: QUO, the date as yymmdd, a random number
\* below 1000 padded to 3 digits
GeneratedQuotationNumber(yymmdd, random) == S_QUO \o yymmdd \o random

\* mutant: the hook numbers every record that has no number
QuotationPreSaveAnyRecord(doc, isNew, yymmdd, random) ==
  IF IsFalsy(doc.quotationNumber)
  THEN [doc EXCEPT !.quotationNumber = GeneratedQuotationNumber(yymmdd, random)]
  ELSE doc

\* src/models/Quotation.js 104-114: the pre-save hook
QuotationPreSave(doc, isNew, yymmdd, random) ==
  IF isNew /\ IsFalsy(doc.quotationNumber)
  THEN [doc EXCEPT !.quotationNumber = GeneratedQuotationNumber(yymmdd, random)]
  ELSE doc

\* src/models/Quotation.js 100-102, timestamps: true: the save of a new or
\* modified document sets updatedAt
StampUpdatedAt(doc, now) == [doc EXCEPT !.updatedAt = now]

\* mutant: the save of a loaded document stores its default status again
SaveQuotationResettingStatus(doc, isNew, yymmdd, random, now) ==
  [StampUpdatedAt(QuotationPreSave(doc, isNew, yymmdd, random), now) EXCEPT !.status = "draft"]

\* quotation.save() of a modified document: the pre-save hook, then the
\* timestamps
SaveQuotation(doc, isNew, yymmdd, random, now) ==
  StampUpdatedAt(QuotationPreSave(doc, isNew, yymmdd, random), now)

\* mutant: the pointer save writes the pointer of every Quotation
SavePointerEveryRecord(r) ==
  /\ reqs[r].pc = "save"
  /\ quotations' = [q \in DOMAIN quotations |->
                      [quotations[q] EXCEPT !.quotationPdf = reqs[r].pdfResult]]
  /\ ptrWrites' = ptrWrites \cup
                    {[q |-> reqs[r].quotation, name |-> reqs[r].pdfResult, by |-> r]}
  /\ Set(r, [reqs[r] EXCEPT !.pc = "sendRegenerated", !.nwrites = @ + 1])
  /\ UNCHANGED <<inquiries, store, lossCount, everStored, handlerReady, legacyObjectIds, drafts>>

\* lines 596-597: quotation.quotationPdf = pdfResult.fileName; quotation.save()
\* writes the path when the assignment changed the loaded document
SavePointer(r) ==
  /\ reqs[r].pc = "save"
  /\ LET rec == reqs[r] IN
     IF rec.pdfResult # rec.docPdf
     THEN /\ \E d \in Dates, n \in Randoms :
               quotations' =
                 [quotations EXCEPT ![rec.quotation] =
                    SaveQuotation([@ EXCEPT !.quotationPdf = rec.pdfResult],
                                  FALSE, d, n, SaveInstant)]
          /\ ptrWrites' = ptrWrites \cup
                            {[q |-> rec.quotation, name |-> rec.pdfResult, by |-> r]}
          /\ Set(r, [rec EXCEPT !.pc = "sendRegenerated", !.nwrites = @ + 1])
     ELSE /\ UNCHANGED <<quotations, ptrWrites>>
          /\ Set(r, [rec EXCEPT !.pc = "sendRegenerated"])
  /\ UNCHANGED <<inquiries, store, lossCount, everStored, handlerReady, legacyObjectIds, drafts>>

\* mutant: the save that rejects has written the pointer
SaveThrowsAfterWrite(r) ==
  /\ reqs[r].pc = "save"
  /\ quotations' = [quotations EXCEPT ![reqs[r].quotation].quotationPdf = reqs[r].pdfResult]
  /\ Set(r, Caught(reqs[r], "save"))
  /\ UNCHANGED <<inquiries, store, lossCount, ptrWrites, everStored, handlerReady, legacyObjectIds, drafts>>

\* quotation.save() rejects: the catch of lines 626-635
SaveThrows(r) ==
  /\ reqs[r].pc = "save"
  /\ Set(r, Caught(reqs[r], "save"))
  /\ UNCHANGED <<quotations, inquiries, store, lossCount, ptrWrites, everStored, handlerReady, legacyObjectIds, drafts>>

\* lines 611-624: res.sendFile of the regenerated file
SendRegenerated(r) ==
  /\ reqs[r].pc = "sendRegenerated"
  /\ LET rec == reqs[r] IN
     Set(r, IF FileExists(rec.pdfResult)
            THEN Respond(rec, 200, "regenerated", rec.pdfResult, store[rec.pdfResult])
            ELSE Respond(rec, 500, "send-error", rec.pdfResult, NoContent))
  /\ UNCHANGED <<quotations, inquiries, store, lossCount, ptrWrites, everStored, handlerReady, legacyObjectIds, drafts>>

\* the ephemeral store loses a file
LoseFile ==
  /\ lossCount < MaxLoss
  /\ \E n \in DOMAIN store : store' = [m \in DOMAIN store \ {n} |-> store[m]]
  /\ lossCount' = lossCount + 1
  /\ UNCHANGED <<quotations, inquiries, reqs, ptrWrites, everStored, handlerReady, legacyObjectIds, drafts>>

----------------------------------------------------------------------------
(* The interceptor: lines 213-245 *)

\* line 234: the period of the poll for the handler, in ms
PollInterval == 100

\* line 241: the wait for the handler, in ms
WaitTimeout == 5000

\* line 639: the database is connected and the handler is assigned
Register ==
  /\ ~handlerReady
  /\ handlerReady' = TRUE
  /\ UNCHANGED <<quotations, inquiries, store, reqs, lossCount, ptrWrites, everStored,
                 legacyObjectIds, drafts>>

\* lines 226-242: the handler is not assigned yet; the interceptor sets its
\* poll and its timeout
WaitForHandler(r) ==
  /\ reqs[r].pc = "idle"
  /\ \A p \in DOMAIN reqs : p < r => reqs[p].pc # "idle"
  /\ ~handlerReady
  /\ Set(r, [reqs[r] EXCEPT !.pc = "waiting", !.gate = "waiting"])
  /\ UNCHANGED <<quotations, inquiries, store, lossCount, ptrWrites, everStored, handlerReady, legacyObjectIds, drafts>>

\* mutant: the timeout leaves the poll running
PollNeverCleared(rec) == rec.gate \in {"waiting", "timedOut"}

\* the interval of line 227 is set; lines 229 and 237 clear it
PollActive(rec) == rec.gate = "waiting"

\* the time since the arrival moves on by one period, up to the timeout
Elapse(rec) == [rec EXCEPT !.elapsed = IF @ < WaitTimeout THEN @ + PollInterval ELSE @]

\* lines 227-234: the poll fires
Poll(r) ==
  /\ PollActive(reqs[r])
  /\ reqs[r].gate = "waiting" => reqs[r].elapsed < WaitTimeout
  /\ Set(r, IF handlerReady THEN Dispatch(Elapse(reqs[r]), "polled")
            ELSE Elapse(reqs[r]))
  /\ UNCHANGED <<quotations, inquiries, store, lossCount, ptrWrites, everStored, handlerReady, legacyObjectIds, drafts>>

\* time passes for a request the poll has handed to the handler, while the
\* timeout of line 236 is pending
Tick(r) ==
  /\ reqs[r].gate = "polled"
  /\ reqs[r].elapsed < WaitTimeout
  /\ Set(r, Elapse(reqs[r]))
  /\ UNCHANGED <<quotations, inquiries, store, lossCount, ptrWrites, everStored, handlerReady, legacyObjectIds, drafts>>

\* line 239: res.status(503).json(...)
Unavailable ==
  [status |-> 503, kind |-> "unavailable", filename |-> Null, content |-> NoContent,
   contentType |-> "application/json", disposition |-> "none",
   body |-> JsonError("Service temporarily unavailable", "absent")]

\* mutant: the timeout clears the poll and answers nothing
ExpireSilently(rec) ==
  [rec EXCEPT !.gate = "timedOut", !.elapsed = WaitTimeout, !.pcAtTimeout = rec.pc]

\* lines 236-241, the handler never called: the poll is cleared and the
\* request is answered 503
ExpireWaiting(rec) ==
  [rec EXCEPT !.gate = "timedOut", !.elapsed = WaitTimeout, !.pcAtTimeout = rec.pc,
              !.pc = "done", !.response = Unavailable]

\* mutant: the timeout ends the handler it answers for
ExpireAborting(rec) ==
  [rec EXCEPT !.gate = "late", !.elapsed = WaitTimeout, !.pcAtTimeout = rec.pc,
              !.pc = "done",
              !.response = IF HeadersSent(rec) THEN @ ELSE Unavailable]

\* lines 236-241, the handler called by the poll: the request is answered
\* 503 unless the handler has answered; the handler goes on
ExpireDispatched(rec) ==
  [rec EXCEPT !.gate = "late", !.elapsed = WaitTimeout, !.pcAtTimeout = rec.pc,
              !.response = IF HeadersSent(rec) THEN @ ELSE Unavailable]

\* lines 236-241: the timeout fires, before or after the poll due at the
\* same time
Timeout(r) ==
  /\ reqs[r].gate \in {"waiting", "polled"}
  /\ reqs[r].elapsed >= WaitTimeout - PollInterval
  /\ Set(r, IF reqs[r].gate = "waiting" THEN ExpireWaiting(reqs[r])
            ELSE ExpireDispatched(reqs[r]))
  /\ UNCHANGED <<quotations, inquiries, store, lossCount, ptrWrites, everStored, handlerReady, legacyObjectIds, drafts>>

----------------------------------------------------------------------------
(* The routing below /uploads and /api/uploads: lines 215-257, 281-285 *)

\* lines 247-248, 253, 281: the mounts of the interceptor and of the static files
Mounts == {<<"/","u","p","l","o","a","d","s">>, <<"/","a","p","i","/","u","p","l","o","a","d","s">>}

QuotationsPrefix == <<"/">> \o S_quotation \o <<"s","/">>

\* String.prototype.startsWith
StartsWith(s, prefix) == HasAt(s, 1, prefix)

\* line 218: path.match(/^\/quotations\/[^\/]+\.pdf$/)
MatchesQuotationPdf(path) ==
  /\ StartsWith(path, QuotationsPrefix)
  /\ Len(path) >= Len(QuotationsPrefix) + 1 + Len(S_pdf)
  /\ HasAt(path, Len(path) - Len(S_pdf) + 1, S_pdf)
  /\ \A i \in (Len(QuotationsPrefix) + 1)..(Len(path) - Len(S_pdf)) : path[i] # "/"

\* mutant: only the paths of PDF files directly below /quotations/ are taken
InterceptsPdfOnly(path) == MatchesQuotationPdf(path)

\* line 218: the request is a quotation PDF request
Intercepts(path) == StartsWith(path, QuotationsPrefix) \/ MatchesQuotationPdf(path)

\* line 219: path.replace('/quotations/', '') on a path that starts with it
FilenameOfPath(path) == SubSeq(path, Len(QuotationsPrefix) + 1, Len(path))

\* lines 215-243: the interceptor takes the request, calling the handler or
\* setting its poll and timeout, or passes it on with next()
Intercept(r) ==
  /\ reqs[r].pc = "idle"
  /\ reqs[r].path # Null
  /\ Set(r, IF Intercepts(reqs[r].path)
            THEN LET rec == [reqs[r] EXCEPT !.filename = FilenameOfPath(reqs[r].path)]
                 IN IF handlerReady THEN Dispatch(rec, "direct")
                    ELSE [rec EXCEPT !.pc = "waiting", !.gate = "waiting"]
            ELSE [reqs[r] EXCEPT !.pc = "next"])
  /\ UNCHANGED <<quotations, inquiries, store, lossCount, ptrWrites, everStored, handlerReady, legacyObjectIds, drafts>>

\* lines 253-257 and 281-285: the middleware of the static files skips what
\* starts with /quotations/ and hands the rest to express.static
StaticFiles(r) ==
  /\ reqs[r].pc = "next"
  /\ Set(r, [reqs[r] EXCEPT !.pc = IF StartsWith(reqs[r].path, QuotationsPrefix)
                                   THEN "skipped" ELSE "static"])
  /\ UNCHANGED <<quotations, inquiries, store, lossCount, ptrWrites, everStored, handlerReady, legacyObjectIds, drafts>>

----------------------------------------------------------------------------
(* Specifications *)

Quotation(pdf, ref, at) ==
  [quotationPdf |-> pdf, inquiryId |-> ref, createdAt |-> at, items |-> <<>>,
   quotationNumber |-> Undefined, status |-> "sent", totalAmount |-> 500,
   updatedAt |-> at, validUntil |-> at + 7000, terms |-> StandardTerms]

\* the quotationNumber of the record with the given id; the unique index on
\* quotationNumber holds
NumberOf(q) ==
  S_QUO \o <<"2","5","1","0","3","1">> \o (IF q = "Q1" THEN <<"0","0","1">> ELSE <<"0","0","2">>)

Numbered(q, doc) == [doc EXCEPT !.quotationNumber = NumberOf(q)]

\* an ObjectId string that names no inquiry
OidC == [i \in 1..24 |-> "c"]

(* The documents application code creates and saves *)

\* src/models/Inquiry.js 97-102 and 110-115: INQ, the date as yymmdd, a
\* random number below 1000 padded to 3 digits
GeneratedInquiryNumber(yymmdd, random) == S_INQ \o yymmdd \o random

\* mutant: the hook numbers every new Inquiry, numbered or not
InquiryPreSaveEveryNew(doc, isNew, yymmdd, random) ==
  IF isNew
  THEN [doc EXCEPT !.inquiryNumber = GeneratedInquiryNumber(yymmdd, random)]
  ELSE doc

\* src/models/Inquiry.js 95-105: the pre-validate hook
InquiryPreValidate(doc, isNew, yymmdd, random) ==
  IF isNew /\ IsFalsy(doc.inquiryNumber)
  THEN [doc EXCEPT !.inquiryNumber = GeneratedInquiryNumber(yymmdd, random)]
  ELSE doc

\* src/models/Inquiry.js 108-118: the pre-save hook
InquiryPreSave(doc, isNew, yymmdd, random) ==
  IF isNew /\ IsFalsy(doc.inquiryNumber)
  THEN [doc EXCEPT !.inquiryNumber = GeneratedInquiryNumber(yymmdd, random)]
  ELSE doc

\* the saves of one document the model follows
MaxSaves == 2

\* a document held by application code, with the count of its saves and of
\* the numbers the hooks gave it
Draft(doc, isNew) == [doc |-> doc, isNew |-> isNew, saves |-> 0, generated |-> 0]

NoDrafts ==
  [quotation |-> Draft(Quotation(Null, OidC, 50000), FALSE),
   inquiry |-> Draft([_id |-> OidC, inquiryNumber |-> Undefined, parts |-> <<>>], FALSE)]

\* 1 when the hook has changed the number, else 0
Assigned(before, after) == IF before = after THEN 0 ELSE 1

\* an explicit quotation number: src/scripts/completeFreshSetup.js gives its
\* Quotation the number QT<Date.now()>
ExplicitQuotationNumber == <<"Q","T","6","0","0","0","0">>

\* the Quotation documents: a new one with no number, an empty or an
\* explicit one, and a loaded one with or without a number (the index on
\* quotationNumber is sparse)
QuotationDrafts ==
  {Draft([Quotation(Null, OidC, 50000) EXCEPT !.quotationNumber = n], new) :
     n \in {Undefined, <<>>, ExplicitQuotationNumber}, new \in BOOLEAN}

\* the Inquiry documents: a new one with no number, an empty or an explicit
\* one, and a loaded one, whose number is required
InquiryDrafts ==
  {Draft([_id |-> OidC, inquiryNumber |-> n, parts |-> <<>>], TRUE) :
     n \in {Undefined, <<>>, InqNumB}}
  \cup {Draft([_id |-> OidC, inquiryNumber |-> InqNumB, parts |-> <<>>], FALSE)}

\* quotation.save() of a document application code holds: the pre-save hook
\* and the timestamps run, then the write either commits or is rejected
\* (a duplicate key on a unique index); a rejected save leaves the document
\* new, with what the hook gave it
QuotationSave(commits) ==
  /\ drafts.quotation.saves < MaxSaves
  /\ \E d \in Dates, n \in Randoms :
       LET old == drafts.quotation
           saved == SaveQuotation(old.doc, old.isNew, d, n, SaveInstant)
       IN drafts' = [drafts EXCEPT !.quotation =
                       [doc |-> saved,
                        isNew |-> IF commits THEN FALSE ELSE old.isNew,
                        saves |-> old.saves + 1,
                        generated |-> old.generated
                          + Assigned(old.doc.quotationNumber, saved.quotationNumber)]]
  /\ UNCHANGED <<quotations, inquiries, store, reqs, lossCount, ptrWrites, everStored,
                 handlerReady, legacyObjectIds>>

\* inquiry.validate(): the pre-validate hook
InquiryValidate ==
  /\ drafts.inquiry.saves < MaxSaves
  /\ \E d \in Dates, n \in Randoms :
       LET old == drafts.inquiry
           validated == InquiryPreValidate(old.doc, old.isNew, d, n)
       IN /\ validated # old.doc
          /\ drafts' = [drafts EXCEPT !.inquiry =
                          [old EXCEPT !.doc = validated,
                                      !.generated = @ + Assigned(old.doc.inquiryNumber,
                                                                 validated.inquiryNumber)]]
  /\ UNCHANGED <<quotations, inquiries, store, reqs, lossCount, ptrWrites, everStored,
                 handlerReady, legacyObjectIds>>

\* inquiry.save(): the pre-validate hook, the validation (inquiryNumber is
\* required, src/models/Inquiry.js 9-13), the pre-save hook, then the write,
\* which commits or is rejected; each hook reads the clock and the random
\* generator for itself
InquirySave(commits) ==
  /\ drafts.inquiry.saves < MaxSaves
  /\ \E d1 \in Dates, n1 \in Randoms, d2 \in Dates, n2 \in Randoms :
       LET old == drafts.inquiry
           validated == InquiryPreValidate(old.doc, old.isNew, d1, n1)
           valid == ~IsFalsy(validated.inquiryNumber)
           saved == IF valid THEN InquiryPreSave(validated, old.isNew, d2, n2)
                    ELSE validated
       IN drafts' = [drafts EXCEPT !.inquiry =
                       [doc |-> saved,
                        isNew |-> IF commits /\ valid THEN FALSE ELSE old.isNew,
                        saves |-> old.saves + 1,
                        generated |-> old.generated
                          + Assigned(old.doc.inquiryNumber, validated.inquiryNumber)
                          + Assigned(validated.inquiryNumber, saved.inquiryNumber)]]
  /\ UNCHANGED <<quotations, inquiries, store, reqs, lossCount, ptrWrites, everStored,
                 handlerReady, legacyObjectIds>>

\* the database, the store and the requests drawn from the given sets; the
\* unique index on inquiryId holds
InitWith(Q1s, Q2s, Is, Files, Names, n) ==
  /\ \E a \in Q1s, b \in Q2s :
       /\ a.inquiryId # b.inquiryId
       /\ quotations = [q \in QIds |-> Numbered(q, IF q = "Q1" THEN a ELSE b)]
  /\ inquiries \in Is
  /\ \E S \in SUBSET Files : store = [f \in S |-> UploadContent] /\ everStored = S
  /\ \E fn \in [1..n -> Names] :
       reqs = [r \in 1..n |-> [IdleReq EXCEPT !.filename = fn[r]]]
  /\ lossCount = 0
  /\ ptrWrites = {}

\* concurrent requests: Q1 is reached from NameGen by its renamed pointer or
\* by its inquiry number, and from NameBoth by its creation time
Init ==
  InitWith({Quotation(NameGenRenamed, OidA, 20000), Quotation(Null, InqNumA, 30000)},
           {Quotation(NameTs, OidB, 30000)},
           {{InquiryA, InquiryB}},
           {NameGen},
           {NameGen, NameBoth},
           MaxRequests)
  /\ handlerReady = TRUE
  /\ legacyObjectIds \in BOOLEAN
  /\ drafts = NoDrafts

\* one request over the databases that tell the lookup strategies apart
InitOne ==
  InitWith({Quotation(p, ref, at) :
              p \in {NameGen, NameGenRenamed, NameTs, NameTsX},
              ref \in {OidA, InqNumA, OidC},
              at \in {14999, 15000}},
           {Quotation(p, ref, at) :
              p \in {Null, NameTs},
              ref \in {OidA, InqNumA, OidB},
              at \in {9999, 10000, 25000, 25001, 30000, 30001}},
           {{InquiryA, InquiryB}, {InquiryB}},
           {NameTs},
           {NameGen, NameTs, NameBoth},
           1)
  /\ handlerReady = TRUE
  /\ legacyObjectIds \in BOOLEAN
  /\ drafts = NoDrafts

\* one request that may reach the interceptor before the handler is assigned
InitGate ==
  InitWith({Quotation(NameGenRenamed, OidA, 20000), Quotation(Null, InqNumA, 30000)},
           {Quotation(NameTs, OidB, 30000)},
           {{InquiryA, InquiryB}},
           {NameGen},
           {NameGen, NameBoth},
           1)
  /\ handlerReady = FALSE
  /\ legacyObjectIds \in BOOLEAN
  /\ drafts = NoDrafts

\* the most rows a Quotation or an Inquiry has
MaxRows == 2

\* the sequences over S of MaxRows elements at most
RowSeqs(S) == UNION {[1..n -> S] : n \in 0..MaxRows}

\* the items a Quotation may hold
Items ==
  {Item(m, t, u) : m \in {Undefined, <<>>, Steel}, t \in {Undefined, <<>>, T2mm},
                   u \in {NoNumber, 7}}

\* the parts an Inquiry may hold
Parts == {Part(m, T2mm, p) : m \in {Steel, Alu}, p \in {0, 9}}

\* one request for the missing file of Q1, whose items and whose Inquiry's
\* parts are drawn from Items and Parts
InitShape ==
  /\ \E its \in RowSeqs(Items) \cup {NoItems} :
       quotations = [q \in QIds |-> Numbered(q,
                                      IF q = "Q1"
                                      THEN [Quotation(NameGen, OidA, 20000) EXCEPT !.items = its]
                                      ELSE Quotation(NameTs, OidB, 30000))]
  /\ \E ps \in RowSeqs(Parts) : inquiries = {[InquiryA EXCEPT !.parts = ps], InquiryB}
  /\ store = [f \in {} |-> UploadContent]
  /\ everStored = {}
  /\ reqs = [r \in 1..1 |-> [IdleReq EXCEPT !.filename = NameGen]]
  /\ lossCount = 0
  /\ ptrWrites = {}
  /\ handlerReady = TRUE
  /\ legacyObjectIds \in BOOLEAN
  /\ drafts = NoDrafts

\* two requests, one after the other or overlapping, for names that Q1 may
\* hold as its pointer while Q2 was created within 5 s of the name's timestamp
InitSeq ==
  InitWith({Quotation(NameTs, OidA, 10000), Quotation(Null, InqNumA, 30000)},
           {Quotation(Null, OidB, 22000)},
           {{InquiryA, InquiryB}, {InquiryB}},
           {NameGen},
           {NameTs, NameGen, NameBoth},
           MaxRequests)
  /\ handlerReady = TRUE
  /\ legacyObjectIds \in BOOLEAN
  /\ drafts = NoDrafts

\* two requests for the upload name Q1 holds as its pointer; Q1 was created
\* 10 s before the upload, Q2 within 5 s of it or 10 s after it
InitKeep ==
  InitWith({Quotation(NameTs, OidA, 10000)},
           {Quotation(Null, OidB, 22000), Quotation(Null, OidB, 30000)},
           {{InquiryA, InquiryB}},
           {},
           {NameTs},
           MaxRequests)
  /\ handlerReady = TRUE
  /\ legacyObjectIds \in BOOLEAN
  /\ drafts = NoDrafts

\* the steps of a request for an upload name, no awaited call rejecting
NextKeep ==
  \/ \E r \in DOMAIN reqs : Arrive(r)
  \/ \E r \in DOMAIN reqs : ExactQuery(r)
  \/ \E r \in DOMAIN reqs : FuzzyQuery(r)
  \/ \E r \in DOMAIN reqs : TimestampQuery(r)
  \/ \E r \in DOMAIN reqs : LoadInquiry(r)
  \/ \E r \in DOMAIN reqs : BuildWrites(r)
  \/ \E r \in DOMAIN reqs : Verify(r)
  \/ \E r \in DOMAIN reqs : SavePointer(r)
  \/ \E r \in DOMAIN reqs : SendRegenerated(r)

SpecKeep == InitKeep /\ [][NextKeep]_vars

\* the paths of the requests below a mount
Paths ==
  {QuotationsPrefix \o NameGen,
   QuotationsPrefix \o NameTs,
   QuotationsPrefix,
   QuotationsPrefix \o <<"a","/">> \o NameTs,
   QuotationsPrefix \o <<"n","o","t","e",".","t","x","t">>,
   <<"/">> \o S_quotation \o <<"s">>,
   <<"/","Q">> \o Tail(S_quotation) \o <<"s","/">> \o NameTs,
   <<"/">> \o S_quotation \o <<"/">> \o NameTs,
   <<"/","a">> \o QuotationsPrefix \o NameTs,
   <<"/","i","n","q","u","i","r","i","e","s","/","a",".","p","d","f">>,
   <<"/">>}

\* one request with any of the paths, by either mount, the handler assigned
\* or not yet
InitRoute ==
  /\ quotations = [q \in QIds |-> Numbered(q, IF q = "Q1"
                                                THEN Quotation(NameGen, OidA, 20000)
                                                ELSE Quotation(NameTs, OidB, 30000))]
  /\ inquiries = {InquiryA, InquiryB}
  /\ store = [f \in {NameTs} |-> UploadContent]
  /\ everStored = {NameTs}
  /\ \E m \in Mounts, p \in Paths :
       reqs = [r \in 1..1 |-> [IdleReq EXCEPT !.mount = m, !.path = p]]
  /\ lossCount = 0
  /\ ptrWrites = {}
  /\ handlerReady \in BOOLEAN
  /\ legacyObjectIds \in BOOLEAN
  /\ drafts = NoDrafts

\* the steps up to the handler or to the static files
NextRoute ==
  \/ Register
  \/ \E r \in DOMAIN reqs : Intercept(r)
  \/ \E r \in DOMAIN reqs : StaticFiles(r)
  \/ \E r \in DOMAIN reqs : Poll(r)
  \/ \E r \in DOMAIN reqs : Timeout(r)

SpecRoute == InitRoute /\ [][NextRoute]_vars

\* the values of the download query parameter
Downloads ==
  {Undefined, <<>>, S_true, <<"1">>, <<"0">>, <<"T","R","U","E">>,
   <<"f","a","l","s","e">>, <<"y","e","s">>}

\* one request for a file of Q1 that may be in the store, with any value of
\* the download parameter
InitDisp ==
  /\ quotations = [q \in QIds |-> Numbered(q, IF q = "Q1"
                                                THEN Quotation(NameGen, OidA, 20000)
                                                ELSE Quotation(NameTs, OidB, 30000))]
  /\ inquiries = {InquiryA, InquiryB}
  /\ \E S \in SUBSET {NameGen} : store = [f \in S |-> UploadContent] /\ everStored = S
  /\ \E d \in Downloads : reqs = [r \in 1..1 |-> [IdleReq EXCEPT !.filename = NameGen,
                                                                   !.download = d]]
  /\ lossCount = 0
  /\ ptrWrites = {}
  /\ handlerReady = TRUE
  /\ legacyObjectIds \in BOOLEAN
  /\ drafts = NoDrafts

Next ==
  \/ \E r \in DOMAIN reqs : Arrive(r)
  \/ \E r \in DOMAIN reqs : SendExisting(r)
  \/ \E r \in DOMAIN reqs : ExactQuery(r)
  \/ \E r \in DOMAIN reqs : FuzzyQuery(r)
  \/ \E r \in DOMAIN reqs : InquiryQuery(r)
  \/ \E r \in DOMAIN reqs : ByInquiryIdQuery(r)
  \/ \E r \in DOMAIN reqs : ByInquiryNumberQuery(r)
  \/ \E r \in DOMAIN reqs : TimestampQuery(r)
  \/ \E r \in DOMAIN reqs : GeneratedTimestampQuery(r)
  \/ \E r \in DOMAIN reqs : QueryThrows(r)
  \/ \E r \in DOMAIN reqs : LoadInquiry(r)
  \/ \E r \in DOMAIN reqs : BuildWrites(r)
  \/ \E r \in DOMAIN reqs : BuildWithoutFile(r)
  \/ \E r \in DOMAIN reqs : BuildThrows(r)
  \/ \E r \in DOMAIN reqs : Verify(r)
  \/ \E r \in DOMAIN reqs : SavePointer(r)
  \/ \E r \in DOMAIN reqs : SaveThrows(r)
  \/ \E r \in DOMAIN reqs : SendRegenerated(r)
  \/ LoseFile

Spec == Init /\ [][Next]_vars

SpecOne == InitOne /\ [][Next]_vars

\* the steps of Next and of the interceptor's wait
NextGate ==
  \/ Register
  \/ \E r \in DOMAIN reqs : WaitForHandler(r)
  \/ \E r \in DOMAIN reqs : Poll(r)
  \/ \E r \in DOMAIN reqs : Tick(r)
  \/ \E r \in DOMAIN reqs : Timeout(r)
  \/ \E r \in DOMAIN reqs : QueryThrows(r)
  \/ \E r \in DOMAIN reqs : BuildThrows(r)
  \/ \E r \in DOMAIN reqs : SaveThrows(r)
  \/ \E r \in DOMAIN reqs : Arrive(r)
  \/ \E r \in DOMAIN reqs : SendExisting(r)
  \/ \E r \in DOMAIN reqs : Verify(r)
  \/ \E r \in DOMAIN reqs : SendRegenerated(r)
  \/ \E r \in DOMAIN reqs : ExactQuery(r)
  \/ \E r \in DOMAIN reqs : FuzzyQuery(r)
  \/ \E r \in DOMAIN reqs : InquiryQuery(r)
  \/ \E r \in DOMAIN reqs : ByInquiryIdQuery(r)
  \/ \E r \in DOMAIN reqs : ByInquiryNumberQuery(r)
  \/ \E r \in DOMAIN reqs : TimestampQuery(r)
  \/ \E r \in DOMAIN reqs : GeneratedTimestampQuery(r)
  \/ \E r \in DOMAIN reqs : LoadInquiry(r)
  \/ \E r \in DOMAIN reqs : BuildWrites(r)
  \/ \E r \in DOMAIN reqs : BuildWithoutFile(r)
  \/ \E r \in DOMAIN reqs : SavePointer(r)
  \/ LoseFile

\* the steps that lead a request to its part rows
NextShape ==
  \/ \E r \in DOMAIN reqs : Arrive(r)
  \/ \E r \in DOMAIN reqs : ExactQuery(r)
  \/ \E r \in DOMAIN reqs : LoadInquiry(r)

SpecShape == InitShape /\ [][NextShape]_vars

\* terms written by the back office
CustomTerms == <<"Net 30">>

\* one request for the file of Q1, whose metadata is drawn
InitMeta ==
  /\ \E total \in {0, 500}, until \in {NoNumber, 27000},
        terms \in {Undefined, <<>>, StandardTerms, CustomTerms} :
       quotations = [q \in QIds |-> Numbered(q,
                                      IF q = "Q1"
                                      THEN [Quotation(NameGen, OidA, 20000)
                                              EXCEPT !.totalAmount = total,
                                                     !.validUntil = until,
                                                     !.terms = terms]
                                      ELSE Quotation(NameTs, OidB, 30000))]
  /\ inquiries = {InquiryA, InquiryB}
  /\ store = [f \in {} |-> UploadContent]
  /\ everStored = {}
  /\ reqs = [r \in 1..1 |-> [IdleReq EXCEPT !.filename = NameGen]]
  /\ lossCount = 0
  /\ ptrWrites = {}
  /\ handlerReady = TRUE
  /\ legacyObjectIds \in BOOLEAN
  /\ drafts = NoDrafts

SpecMeta == InitMeta /\ [][NextShape]_vars

SpecSeq == InitSeq /\ [][Next]_vars

\* the steps of the two paths that send a file
NextDisp ==
  \/ \E r \in DOMAIN reqs : Arrive(r)
  \/ \E r \in DOMAIN reqs : SendExisting(r)
  \/ \E r \in DOMAIN reqs : ExactQuery(r)
  \/ \E r \in DOMAIN reqs : LoadInquiry(r)
  \/ \E r \in DOMAIN reqs : BuildWrites(r)
  \/ \E r \in DOMAIN reqs : Verify(r)
  \/ \E r \in DOMAIN reqs : SavePointer(r)
  \/ \E r \in DOMAIN reqs : SendRegenerated(r)

SpecDisp == InitDisp /\ [][NextDisp]_vars

\* one request that rebuilds the file of Q1, beside a Quotation and an
\* Inquiry that application code saves
InitHooks ==
  /\ quotations = [q \in QIds |-> Numbered(q, IF q = "Q1"
                                                THEN Quotation(NameGen, OidA, 20000)
                                                ELSE Quotation(NameTs, OidB, 30000))]
  /\ inquiries = {InquiryA, InquiryB}
  /\ store = [f \in {} |-> UploadContent]
  /\ everStored = {}
  /\ reqs = [r \in 1..1 |-> [IdleReq EXCEPT !.filename = NameGen]]
  /\ lossCount = 0
  /\ ptrWrites = {}
  /\ handlerReady = TRUE
  /\ legacyObjectIds \in BOOLEAN
  /\ \E q \in QuotationDrafts, i \in InquiryDrafts :
       drafts = [quotation |-> q, inquiry |-> i]

NextHooks ==
  \/ \E commits \in BOOLEAN : QuotationSave(commits)
  \/ InquiryValidate
  \/ \E commits \in BOOLEAN : InquirySave(commits)
  \/ \E r \in DOMAIN reqs : Arrive(r)
  \/ \E r \in DOMAIN reqs : ExactQuery(r)
  \/ \E r \in DOMAIN reqs : LoadInquiry(r)
  \/ \E r \in DOMAIN reqs : BuildWrites(r)
  \/ \E r \in DOMAIN reqs : Verify(r)
  \/ \E r \in DOMAIN reqs : SavePointer(r)
  \/ \E r \in DOMAIN reqs : SendRegenerated(r)

SpecHooks == InitHooks /\ [][NextHooks]_vars

SpecGate == InitGate /\ [][NextGate]_vars

\* the event loop runs what is due, and every awaited call returns or rejects
SpecGateFair == SpecGate /\ WF_vars(NextGate)

----------------------------------------------------------------------------
(* Claims *)

Rebuilding(r) == reqs[r].pc \in {"build", "verify", "save"}

Regenerated(r) == reqs[r].response.status = 200 /\ reqs[r].response.kind = "regenerated"

\* C1: for every quotation, at most one request is inside the builder call or
\* the pointer save for it
C1_AtMostOneRebuildPerQuotation ==
  \A q \in QIds :
    Cardinality({r \in DOMAIN reqs : reqs[r].quotation = q /\ Rebuilding(r)}) <= 1

\* C2: two overlapping requests for the same missing artifact invoke the
\* builder once between them
C2_OneBuilderInvocation ==
  \A r1, r2 \in DOMAIN reqs :
    ( /\ r1 # r2
      /\ reqs[r1].filename = reqs[r2].filename
      /\ r1 \in reqs[r2].overlap
      /\ ~reqs[r1].existedAtCheck
      /\ ~reqs[r2].existedAtCheck )
    => reqs[r1].nbuilds + reqs[r2].nbuilds <= 1

\* C3: once a request has been answered with the regenerated PDF, and the
\* store has lost no file, the pointer of the quotation it resolved names a
\* file of the store
C3_PointerConsistency ==
  \A r \in DOMAIN reqs :
    (Regenerated(r) /\ lossCount = 0)
    => quotations[reqs[r].quotation].quotationPdf \in DOMAIN store

\* C4: every pointer value a rebuild has saved is the name its builder
\* returned, which that request saw in the store before the save, and which
\* has had a file; a request about to save has seen its file
C4_WriteThenLink ==
  /\ \A w \in ptrWrites :
       /\ w.name \in everStored
       /\ reqs[w.by].pdfResult = w.name
       /\ reqs[w.by].observed = w.name
  /\ \A r \in DOMAIN reqs :
       reqs[r].pc = "save" => reqs[r].observed = reqs[r].pdfResult

C4_Witness ==
  \E w \in ptrWrites : quotations[w.q].quotationPdf = w.name /\ w.name = NameNew

\* C5: a request whose file existed at the existence check runs no query,
\* calls no builder and saves no pointer; it is answered with that file, or,
\* the file lost before the send, with the send error
C5_FastPath ==
  \A r \in DOMAIN reqs :
    reqs[r].existedAtCheck =>
      /\ reqs[r].pc \in {"sendExisting", "done"}
      /\ reqs[r].tried = <<>>
      /\ reqs[r].nbuilds = 0
      /\ reqs[r].nwrites = 0
      /\ reqs[r].quotation = NoQuotation
      /\ \A w \in ptrWrites : w.by # r
      /\ reqs[r].pc = "done" =>
           /\ reqs[r].response.kind \in {"existing", "send-error"}
           /\ reqs[r].response.filename = reqs[r].filename
           /\ lossCount = 0 =>
                /\ reqs[r].response.status = 200
                /\ reqs[r].response.kind = "existing"
                /\ (\A p \in DOMAIN reqs : reqs[p].pdfResult # reqs[r].filename)
                     => reqs[r].response.content = store[reqs[r].filename]

C5_Witness ==
  \E r \in DOMAIN reqs :
    /\ reqs[r].existedAtCheck
    /\ reqs[r].response.kind = "existing"
    /\ \E q \in QIds : quotations[q].quotationPdf = reqs[r].filename

----------------------------------------------------------------------------
(* The lookup, as the specification words it *)

LookupFound(r) == reqs[r].pc = "loadInquiry"

LookupFailed(r) == reqs[r].response.kind = "quotation-not-found"

LookupOver(r) == LookupFound(r) \/ LookupFailed(r)

\* f occurs in s as a literal substring, letter case ignored
ContainsIgnoringCase(s, f) ==
  \E i \in 1..(Len(s) - Len(f) + 1) :
    \A k \in 1..Len(f) : ToLower(s[i + k - 1]) = ToLower(f[k])

PointerIs(f) == {q \in QIds : quotations[q].quotationPdf = f}

PointerContains(f) ==
  {q \in QIds : /\ quotations[q].quotationPdf # Null
                /\ ContainsIgnoringCase(quotations[q].quotationPdf, f)}

\* the quotations that refer, in identifier or in number form, to an inquiry
\* whose number is num
ReferringTo(num) ==
  LET byId == {q \in QIds : \E i \in inquiries :
                 i.inquiryNumber = num /\ quotations[q].inquiryId = i._id}
      byNumber == {q \in QIds : /\ \E i \in inquiries : i.inquiryNumber = num
                                /\ quotations[q].inquiryId = num}
  IN  IF byId # {} THEN byId ELSE byNumber

ByEmbeddedNumber(f) ==
  IF InquiryMatch(f).matched THEN ReferringTo(InquiryMatch(f).inquiryNumber) ELSE {}

\* the most recently created quotations with createdAt in [lo, hi]
LatestBetween(lo, hi) ==
  LET within == {q \in QIds : lo <= quotations[q].createdAt /\ quotations[q].createdAt <= hi}
  IN  {q \in within : \A p \in within : quotations[p].createdAt <= quotations[q].createdAt}

ByFirstTimestamp(f) ==
  IF TimestampMatch(f).matched
  THEN LatestBetween(TimestampMatch(f).timestamp - 5000, TimestampMatch(f).timestamp + 5000)
  ELSE {}

BySecondTimestamp(f) ==
  IF GeneratedTimestampMatch(f).matched
  THEN LatestBetween(GeneratedTimestampMatch(f).timestamp - 10000,
                     GeneratedTimestampMatch(f).timestamp + 10000)
  ELSE {}

StrategyNames == <<"exact", "fuzzy", "inquiry", "ts1", "ts2">>

\* the strategy a query belongs to
StrategyOf(what) ==
  CASE what = "exact" -> 1
    [] what = "fuzzy" -> 2
    [] what \in {"inquiry", "byInquiryId", "byInquiryNumber"} -> 3
    [] what = "ts1" -> 4
    [] what = "ts2" -> 5

Candidates(k, f) ==
  CASE k = 1 -> PointerIs(f)
    [] k = 2 -> PointerContains(f)
    [] k = 3 -> ByEmbeddedNumber(f)
    [] k = 4 -> ByFirstTimestamp(f)
    [] k = 5 -> BySecondTimestamp(f)

\* C6: the strategies run in the order exact, fuzzy, inquiry number, first
\* timestamp shape, second timestamp shape; the quotation used is one the
\* earliest strategy with a match yields, and no query of a later strategy is
\* run once one has matched.
C6_StrategyOrder ==
  \A r \in DOMAIN reqs :
    LET rec == reqs[r] IN
    /\ \A i, j \in 1..Len(rec.tried) :
         i < j => StrategyOf(rec.tried[i]) <= StrategyOf(rec.tried[j])
    /\ LookupFound(r) =>
         LET k == StrategyOf(rec.via) IN
         /\ rec.quotation \in Candidates(k, rec.filename)
         /\ \A j \in 1..(k - 1) : Candidates(j, rec.filename) = {}
         /\ \A i \in 1..Len(rec.tried) : StrategyOf(rec.tried[i]) <= k
         /\ rec.tried[1] = "exact"
    /\ LookupFailed(r) => \A j \in 1..5 : Candidates(j, rec.filename) = {}

\* an earlier strategy matched one quotation although a later one would have
\* matched only the other
C6_Witness ==
  \E r \in DOMAIN reqs :
    /\ LookupFound(r)
    /\ \E j \in 1..5 :
         /\ j > StrategyOf(reqs[r].via)
         /\ Candidates(j, reqs[r].filename) # {}
         /\ reqs[r].quotation \notin Candidates(j, reqs[r].filename)

\* the filename has the form quotation_<inquiry number>_<digits>.pdf
EmbedsInquiryNumber(f, num) ==
  /\ num \in {InqNumA, InqNumB}
  /\ \E st \in {Stamp20000, Stamp40000} : f = GeneratedName(num, st)

\* the quotations whose inquiry reference is i, in either form
Referencing(i) ==
  {q \in QIds : quotations[q].inquiryId \in {i._id, i.inquiryNumber}}

\* C7: a filename that embeds an inquiry number and has no exact or fuzzy
\* pointer match, where an inquiry with that number exists and exactly one
\* quotation references it, resolves to that quotation: by the identifier
\* form of the reference first, by the number form second.
C7_EmbeddedInquiryNumber ==
  \A r \in DOMAIN reqs : \A i \in inquiries : \A q \in QIds :
    ( /\ LookupOver(r)
      /\ EmbedsInquiryNumber(reqs[r].filename, i.inquiryNumber)
      /\ PointerIs(reqs[r].filename) = {}
      /\ PointerContains(reqs[r].filename) = {}
      /\ Referencing(i) = {q} )
    => /\ LookupFound(r)
       /\ reqs[r].quotation = q
       /\ reqs[r].tried =
            IF quotations[q].inquiryId = i._id
            THEN <<"exact", "fuzzy", "inquiry", "byInquiryId">>
            ELSE <<"exact", "fuzzy", "inquiry", "byInquiryId", "byInquiryNumber">>

\* the quotation was resolved through the number form of its reference
C7_Witness ==
  \E r \in DOMAIN reqs : \E i \in inquiries :
    /\ LookupFound(r)
    /\ EmbedsInquiryNumber(reqs[r].filename, i.inquiryNumber)
    /\ PointerIs(reqs[r].filename) = {}
    /\ PointerContains(reqs[r].filename) = {}
    /\ Referencing(i) = {reqs[r].quotation}
    /\ quotations[reqs[r].quotation].inquiryId = i.inquiryNumber
    /\ reqs[r].via = "byInquiryNumber"

\* the filename has the form quotation-<ts>-<rand>.pdf
IsUploadName(f) == \E st \in {Stamp20000, Stamp40000} : f = UploadName(st)

UploadStamp(f) == parseInt(CHOOSE st \in {Stamp20000, Stamp40000} : f = UploadName(st))

\* C8, as stated: for a filename of the first timestamp shape with no
\* inquiry-number match, the quotation selected is the most recently created
\* one with createdAt in [ts - 5000, ts + 5000].
C8_FirstTimestampShape_AsStated ==
  \A r \in DOMAIN reqs :
    ( /\ LookupFound(r)
      /\ IsUploadName(reqs[r].filename)
      /\ ByEmbeddedNumber(reqs[r].filename) = {} )
    => reqs[r].quotation \in LatestBetween(UploadStamp(reqs[r].filename) - 5000,
                                           UploadStamp(reqs[r].filename) + 5000)

\* C8: for a filename of the first timestamp shape with no exact, fuzzy or
\* inquiry-number match, the quotation selected is the most recently created
\* one with createdAt in [ts - 5000, ts + 5000], bounds included; one is
\* selected whenever that window holds a quotation.
C8_FirstTimestampShape ==
  \A r \in DOMAIN reqs :
    ( /\ LookupOver(r)
      /\ IsUploadName(reqs[r].filename)
      /\ PointerIs(reqs[r].filename) = {}
      /\ PointerContains(reqs[r].filename) = {}
      /\ ByEmbeddedNumber(reqs[r].filename) = {} )
    => LET latest == LatestBetween(UploadStamp(reqs[r].filename) - 5000,
                                   UploadStamp(reqs[r].filename) + 5000)
       IN  /\ LookupFound(r) => reqs[r].quotation \in latest /\ reqs[r].via = "ts1"
           /\ LookupFailed(r) => latest = {}

\* the quotation selected lies on a bound of the window and the other
\* quotation lies inside the window and is older
C8_Witness ==
  \E r \in DOMAIN reqs :
    /\ LookupFound(r)
    /\ IsUploadName(reqs[r].filename)
    /\ PointerIs(reqs[r].filename) = {}
    /\ PointerContains(reqs[r].filename) = {}
    /\ reqs[r].via = "ts1"
    /\ quotations[reqs[r].quotation].createdAt = UploadStamp(reqs[r].filename) + 5000
    /\ \E p \in QIds :
         /\ p # reqs[r].quotation
         /\ quotations[p].createdAt >= UploadStamp(reqs[r].filename) - 5000
         /\ quotations[p].createdAt < quotations[reqs[r].quotation].createdAt

\* the filename has the form quotation_<ref>_<ts>.pdf
GeneratedRefs == {InqNumA, InqNumB, S_quotation \o <<"-">> \o Stamp20000 \o <<"-">>}

IsGeneratedName(f) ==
  \E ref \in GeneratedRefs : \E st \in {Stamp20000, Stamp40000} :
    f = GeneratedName(ref, st)

GeneratedStamp(f) ==
  parseInt(CHOOSE st \in {Stamp20000, Stamp40000} :
             \E ref \in GeneratedRefs : f = GeneratedName(ref, st))

\* C9, as stated: for a filename of the second timestamp shape for which the
\* exact, fuzzy and inquiry-number strategies fail, the quotation selected is
\* the most recently created one with createdAt in [ts - 10000, ts + 10000].
C9_SecondTimestampShape_AsStated ==
  \A r \in DOMAIN reqs :
    ( /\ LookupFound(r)
      /\ IsGeneratedName(reqs[r].filename)
      /\ PointerIs(reqs[r].filename) = {}
      /\ PointerContains(reqs[r].filename) = {}
      /\ ByEmbeddedNumber(reqs[r].filename) = {} )
    => reqs[r].quotation \in LatestBetween(GeneratedStamp(reqs[r].filename) - 10000,
                                           GeneratedStamp(reqs[r].filename) + 10000)

\* C9: for a filename of the second timestamp shape for which the exact,
\* fuzzy, inquiry-number and first-timestamp-shape strategies fail, the
\* quotation selected is the most recently created one with createdAt in
\* [ts - 10000, ts + 10000], bounds included; one is selected whenever that
\* window holds a quotation, and this strategy never selects a quotation
\* created more than 10000 from ts.
C9_SecondTimestampShape ==
  \A r \in DOMAIN reqs :
    LET f == reqs[r].filename
        latest == LatestBetween(GeneratedStamp(f) - 10000, GeneratedStamp(f) + 10000)
    IN  /\ ( /\ LookupOver(r)
             /\ IsGeneratedName(f)
             /\ PointerIs(f) = {}
             /\ PointerContains(f) = {}
             /\ ByEmbeddedNumber(f) = {}
             /\ ByFirstTimestamp(f) = {} )
           => /\ LookupFound(r) => reqs[r].quotation \in latest /\ reqs[r].via = "ts2"
              /\ LookupFailed(r) => latest = {}
        /\ ( LookupFound(r) /\ reqs[r].via = "ts2" )
           => /\ IsGeneratedName(f)
              /\ quotations[reqs[r].quotation].createdAt >= GeneratedStamp(f) - 10000
              /\ quotations[reqs[r].quotation].createdAt <= GeneratedStamp(f) + 10000

\* the quotation selected is the later of two that lie in the window
C9_Witness ==
  \E r \in DOMAIN reqs :
    /\ LookupFound(r)
    /\ IsGeneratedName(reqs[r].filename)
    /\ PointerIs(reqs[r].filename) = {}
    /\ PointerContains(reqs[r].filename) = {}
    /\ ByEmbeddedNumber(reqs[r].filename) = {}
    /\ ByFirstTimestamp(reqs[r].filename) = {}
    /\ reqs[r].via = "ts2"
    /\ \E p \in QIds :
         /\ p # reqs[r].quotation
         /\ quotations[p].createdAt >= GeneratedStamp(reqs[r].filename) - 10000
         /\ quotations[p].createdAt < quotations[reqs[r].quotation].createdAt

\* C10: the second strategy selects a quotation whose pointer contains the
\* requested filename as a literal substring, letter case ignored and regex
\* metacharacters taken literally; it runs right after the exact match and
\* before anything is parsed out of the filename.
C10_FuzzyPointer ==
  \A r \in DOMAIN reqs :
    /\ ( LookupOver(r) /\ PointerIs(reqs[r].filename) = {}
                       /\ PointerContains(reqs[r].filename) # {} )
       => /\ LookupFound(r)
          /\ reqs[r].via = "fuzzy"
    /\ ( LookupFound(r) /\ reqs[r].via = "fuzzy" )
       => /\ reqs[r].quotation \in PointerContains(reqs[r].filename)
          /\ reqs[r].tried = <<"exact", "fuzzy">>

\* a filename with a dot in it was matched inside a longer pointer that
\* differs from it in letter case
C10_Witness ==
  \E r \in DOMAIN reqs :
    /\ LookupFound(r)
    /\ reqs[r].via = "fuzzy"
    /\ quotations[reqs[r].quotation].quotationPdf # reqs[r].filename
    /\ Len(quotations[reqs[r].quotation].quotationPdf) > Len(reqs[r].filename)

----------------------------------------------------------------------------
(* Failures *)

\* C11: a request for an absent file whose lookup ran to its end with no
\* query rejecting and every strategy failing is answered 404 not-found with
\* the filename echoed; it has called no builder, written no file and saved
\* no pointer.
C11_Unresolvable ==
  \A r \in DOMAIN reqs :
    ( /\ reqs[r].pc = "done"
      /\ reqs[r].tried # <<>>
      /\ reqs[r].via = "none"
      /\ reqs[r].threw = "none"
      /\ \A j \in 1..5 : Candidates(j, reqs[r].filename) = {} )
    => /\ reqs[r].response.status = 404
       /\ reqs[r].response.kind = "quotation-not-found"
       /\ reqs[r].response.filename = reqs[r].filename
       /\ reqs[r].nbuilds = 0
       /\ reqs[r].pdfResult = Null
       /\ reqs[r].nwrites = 0
       /\ \A w \in ptrWrites : w.by # r

\* the lookup of quotation-<ts>-<rand>.pdf failed with no pointer match and no
\* quotation created within 5000 of the timestamp
C11_Witness ==
  \E r \in DOMAIN reqs :
    /\ LookupFailed(r)
    /\ IsUploadName(reqs[r].filename)
    /\ reqs[r].tried = <<"exact", "fuzzy", "ts1">>
    /\ \E q \in QIds : quotations[q].createdAt = UploadStamp(reqs[r].filename) + 5001

\* C12: once a build has succeeded and the handler is past the pointer
\* update, the pointer of the resolved quotation has been rewritten to the
\* builder's filename if that differs from the pointer the quotation had, and
\* has been left alone if they are equal.
C12_PointerUpdateRule ==
  \A r \in DOMAIN reqs :
    reqs[r].pc = "sendRegenerated" =>
      IF reqs[r].pdfResult # reqs[r].docPdf
      THEN /\ quotations[reqs[r].quotation].quotationPdf = reqs[r].pdfResult
           /\ reqs[r].nwrites = 1
      ELSE /\ quotations[reqs[r].quotation].quotationPdf = reqs[r].docPdf
           /\ reqs[r].nwrites = 0

\* the builder rejected, or returned without its file in the store, or the
\* save of the quotation rejected
RebuildFailed(r) ==
  \/ reqs[r].threw \in {"build", "save"}
  \/ reqs[r].response.kind = "file-not-created"

\* C13: a request whose builder call rejected, whose generated file was not
\* in the store, or whose save rejected is answered with a 5xx error, and the
\* pointer of its quotation is the one the quotation had when the request
\* loaded it; the request has written no pointer.
C13_FailureKeepsPointer ==
  \A r \in DOMAIN reqs :
    RebuildFailed(r) =>
      /\ reqs[r].pc = "done"
      /\ reqs[r].response.status \in 500..599
      /\ reqs[r].response.kind \in {"regenerate-error", "file-not-created"}
      /\ quotations[reqs[r].quotation].quotationPdf = reqs[r].docPdf
      /\ reqs[r].nwrites = 0
      /\ \A w \in ptrWrites : w.by # r

\* the save of a pointer that differs from the stored one rejected
C13_Witness ==
  \E r \in DOMAIN reqs :
    /\ reqs[r].threw = "save"
    /\ reqs[r].pdfResult # reqs[r].docPdf
    /\ reqs[r].pdfResult \in DOMAIN store

\* the next step of a request that has resolved its quotation, when no
\* awaited call rejects
RebuildStep(r) ==
  \/ LoadInquiry(r)
  \/ BuildWrites(r)
  \/ Verify(r)
  \/ SavePointer(r)
  \/ SendRegenerated(r)

\* r2 arrived after r1 had ended
ArrivedAfter(r2, r1) == r1 < r2 /\ reqs[r2].pc # "idle" /\ r1 \notin reqs[r2].overlap

\* C14: after a rebuild of a quotation has ended in a build or persist
\* failure, nothing blocks another request: one that has not arrived can
\* arrive, one that has resolved the same quotation and is not yet answered
\* can take its next step, and one that arrived after the failure and was
\* answered with the regenerated PDF has run its own lookup, build and
\* existence check.
C14_NoBlockAfterFailure ==
  \A r1, r2 \in DOMAIN reqs :
    (r1 # r2 /\ RebuildFailed(r1)) =>
      /\ ( reqs[r2].pc = "idle" /\ \A p \in DOMAIN reqs : p < r2 => reqs[p].pc # "idle" )
         => ENABLED Arrive(r2)
      /\ ( reqs[r2].quotation = reqs[r1].quotation /\ reqs[r2].pc # "done" )
         => ENABLED RebuildStep(r2)
      /\ ( ArrivedAfter(r2, r1) /\ Regenerated(r2) )
         => /\ reqs[r2].tried # <<>>
            /\ reqs[r2].nbuilds = 1
            /\ reqs[r2].observed = reqs[r2].pdfResult

\* a request that arrived after a rebuild of the same quotation had failed
\* was answered with the regenerated PDF
C14_Witness ==
  \E r1, r2 \in DOMAIN reqs :
    /\ RebuildFailed(r1)
    /\ ArrivedAfter(r2, r1)
    /\ reqs[r2].quotation = reqs[r1].quotation
    /\ Regenerated(r2)
    /\ quotations[reqs[r2].quotation].quotationPdf \in DOMAIN store

----------------------------------------------------------------------------
(* The wait for the handler *)

\* the timeout fired while the request was still waiting for the handler
TimedOutWaiting(r) == reqs[r].pcAtTimeout = "waiting"

\* the interceptor called the handler for the request, at once or from its poll
Dispatched(r) == reqs[r].gate \in {"direct", "polled", "late"}

\* the handler has run some step for the request
HandlerRan(r) ==
  \/ reqs[r].tried # <<>>
  \/ reqs[r].via # "none"
  \/ reqs[r].outcome # "none"
  \/ reqs[r].nbuilds # 0
  \/ reqs[r].nwrites # 0

\* C15: a request that arrived before the handler was assigned and was still
\* waiting when its timeout fired is answered 503 at the timeout, 5000 ms
\* after it arrived; it is not handed to the handler afterwards, whether or
\* not the handler is assigned later, and it is not left without an answer.
C15_WaitTimesOut ==
  \A r \in DOMAIN reqs :
    TimedOutWaiting(r) =>
      /\ reqs[r].response = Unavailable
      /\ reqs[r].elapsed = WaitTimeout
      /\ reqs[r].gate = "timedOut"
      /\ reqs[r].pc = "done"
      /\ ~HandlerRan(r)

\* a request answered 503 by its timeout, and the handler assigned afterwards
C15_Witness ==
  \E r \in DOMAIN reqs :
    /\ TimedOutWaiting(r)
    /\ reqs[r].response.status = 503
    /\ handlerReady

Entered(r) == r \in DOMAIN reqs /\ reqs[r].pc # "idle"

\* an answer to the request has been sent
Answered(r) == r \in DOMAIN reqs /\ HeadersSent(reqs[r])

\* C17: every request that has reached the interceptor is answered in the
\* end, by the handler or by the timeout, as long as what is due runs and
\* every awaited call returns or rejects.
C17_NoRequestHangs ==
  \A r \in 1..MaxRequests : Entered(r) ~> Answered(r)

\* a request that waited for the handler has been answered by the handler
C17_Witness ==
  \E r \in DOMAIN reqs :
    /\ reqs[r].gate = "polled"
    /\ reqs[r].pc = "done"
    /\ reqs[r].response.status = 200

\* what the handler holds for a request: its position and its results so far
HandlerState(rec) ==
  [pc |-> rec.pc, tried |-> rec.tried, via |-> rec.via, quotation |-> rec.quotation,
   inquiry |-> rec.inquiry, docPdf |-> rec.docPdf, pdfResult |-> rec.pdfResult,
   nbuilds |-> rec.nbuilds, nwrites |-> rec.nwrites, threw |-> rec.threw,
   outcome |-> rec.outcome]

\* the timeout fires in this step for a request the handler is working on
TimeoutDuringHandler(r) ==
  /\ reqs[r].gate = "polled"
  /\ reqs'[r].gate = "late"

\* C18: the timeout that fires while the handler is working on a request
\* stops nothing: the handler keeps its position and its results, the files
\* and the Quotations are as they were, and the rebuild goes on from there
\* (the builder call, the file, the pointer update) as it would without the
\* timeout.
C18_TimeoutCancelsNothing ==
  [][\A r \in DOMAIN reqs :
       TimeoutDuringHandler(r) =>
         /\ HandlerState(reqs'[r]) = HandlerState(reqs[r])
         /\ UNCHANGED <<quotations, inquiries, store, ptrWrites, everStored>>]_vars

\* the timeout fired before the builder was called; the builder then ran, its
\* file is in the store and the pointer of the Quotation was rewritten
C18_Witness ==
  \E r \in DOMAIN reqs :
    /\ reqs[r].gate = "late"
    /\ reqs[r].pcAtTimeout = "build"
    /\ reqs[r].response.status = 503
    /\ reqs[r].outcome = "regenerated"
    /\ reqs[r].nbuilds = 1
    /\ reqs[r].nwrites = 1
    /\ reqs[r].pdfResult \in DOMAIN store
    /\ quotations[reqs[r].quotation].quotationPdf = reqs[r].pdfResult

----------------------------------------------------------------------------
(* The part rows *)

\* the part rows of the request have been prepared and the builder called
Shaped(r) == reqs[r].pc = "build"

\* the Quotation and the Inquiry the rows of the request were prepared from
QuotationOf(r) == quotations[reqs[r].quotation]
InquiryOf(r) == CHOOSE i \in inquiries : i._id = reqs[r].inquiry

\* the Quotation has an items array with an element in it
ItemsGiven(q) == q.items # NoItems /\ q.items # <<>>

\* the rows the request's rows are to be derived from
SourceRows(r) ==
  IF ItemsGiven(QuotationOf(r)) THEN QuotationOf(r).items ELSE InquiryOf(r).parts

\* the row carries the material and the thickness of the source row, or the
\* fallback values
DerivedFrom(row, src) ==
  /\ row.material \in {src.material, Zintec}
  /\ row.thickness \in {src.thickness, T1_5}
  /\ row.quantity = src.quantity

\* C19: when the Quotation's items is non-empty the rows passed to the
\* builder are one per item, in order, with price the item's unitPrice (0
\* when the item has none); when items is empty or absent they are one per
\* part of the Inquiry, in order, each with price 0 whatever the part's own
\* price, and none comes from items.
C19_InputShaping ==
  \A r \in DOMAIN reqs :
    Shaped(r) =>
      LET q == QuotationOf(r)
          parts == InquiryOf(r).parts
          rows == reqs[r].rows
      IN  IF ItemsGiven(q)
          THEN /\ Len(rows) = Len(q.items)
               /\ \A k \in 1..Len(rows) :
                    /\ DerivedFrom(rows[k], q.items[k])
                    /\ rows[k].price = IF q.items[k].unitPrice = NoNumber THEN 0
                                       ELSE q.items[k].unitPrice
          ELSE /\ Len(rows) = Len(parts)
               /\ \A k \in 1..Len(rows) :
                    /\ DerivedFrom(rows[k], parts[k])
                    /\ rows[k].price = 0

\* the spec's scenario: items is empty, the Inquiry has a Steel part (with a
\* price of its own) and the one row is that part at price 0
C19_Witness ==
  \E r \in DOMAIN reqs :
    /\ Shaped(r)
    /\ QuotationOf(r).items = <<>>
    /\ InquiryOf(r).parts = <<Part(Steel, T2mm, 9)>>
    /\ Len(reqs[r].rows) = 1
    /\ reqs[r].rows[1].material = Steel
    /\ reqs[r].rows[1].price = 0

\* C20 (as stated): in every row passed to the builder, material is the
\* source row's material when it is set and "Zintec" when it is not, and
\* thickness is the source row's thickness when it is set and "1.5" when it
\* is not; a value that is set is never replaced.
C20_RowDefaults_AsStated ==
  \A r \in DOMAIN reqs :
    Shaped(r) =>
      \A k \in 1..Len(reqs[r].rows) :
        LET src == SourceRows(r)[k]
            row == reqs[r].rows[k]
        IN  /\ row.material = IF src.material # Undefined THEN src.material ELSE Zintec
            /\ row.thickness = IF src.thickness # Undefined THEN src.thickness ELSE T1_5

\* the string is set and is not the empty string
NonEmpty(v) == v # Undefined /\ v # <<>>

\* C20 (amended): in every row passed to the builder, material is the source
\* row's material when that is set and not empty and "Zintec" when it is
\* absent or empty, and thickness is the source row's thickness when that is
\* set and not empty and "1.5" when it is absent or empty; a non-empty value
\* is never replaced.
C20_RowDefaults ==
  \A r \in DOMAIN reqs :
    Shaped(r) =>
      /\ Len(reqs[r].rows) = Len(SourceRows(r))
      /\ \A k \in 1..Len(reqs[r].rows) :
           LET src == SourceRows(r)[k]
               row == reqs[r].rows[k]
           IN  /\ row.material = IF NonEmpty(src.material) THEN src.material ELSE Zintec
               /\ row.thickness = IF NonEmpty(src.thickness) THEN src.thickness ELSE T1_5

\* two items, the first with an empty material and no thickness, the second
\* with both: the first row has the fallback values, the second keeps its own
C20_Witness ==
  \E r \in DOMAIN reqs :
    /\ Shaped(r)
    /\ QuotationOf(r).items = <<Item(<<>>, Undefined, 7), Item(Steel, T2mm, 7)>>
    /\ reqs[r].rows[1].material = Zintec
    /\ reqs[r].rows[1].thickness = T1_5
    /\ reqs[r].rows[2].material = Steel
    /\ reqs[r].rows[2].thickness = T2mm

----------------------------------------------------------------------------
(* The inquiry reference *)

\* the Quotation of the request is resolved and its Inquiry has been looked up
InquiryLookupOver(r) ==
  /\ reqs[r].quotation # NoQuotation
  /\ reqs[r].threw # "query"
  /\ reqs[r].pc \notin QueryPcs

\* C21 (as stated): whichever form the resolved Quotation's inquiryId has,
\* the identifier of an Inquiry or its inquiryNumber (INQ, 6 date digits, 3
\* digits), that Inquiry is loaded and the regeneration goes on to the build.
C21_BothReferenceForms ==
  \A r \in DOMAIN reqs : \A i \in inquiries :
    ( /\ InquiryLookupOver(r)
      /\ quotations[reqs[r].quotation].inquiryId \in {i._id, i.inquiryNumber} )
    => /\ reqs[r].inquiry = i._id
       /\ reqs[r].nbuilds = 1

----------------------------------------------------------------------------
(* The frame of a request *)

\* the record with the pointer and the update time of another
WithPointerOf(doc, other) ==
  [doc EXCEPT !.quotationPdf = other.quotationPdf]

WithPointerAndTimeOf(doc, other) ==
  [doc EXCEPT !.quotationPdf = other.quotationPdf, !.updatedAt = other.updatedAt]

\* C22 (as stated): no step of a quotation-PDF request, on any path, changes
\* an Inquiry record or any field of a Quotation other than its quotationPdf.
C22_Frame_AsStated ==
  [][/\ inquiries' = inquiries
     /\ \A q \in QIds : WithPointerOf(quotations'[q], quotations[q]) = quotations[q]]_vars

\* C22 (amended): no step of a quotation-PDF request, on any path, changes an
\* Inquiry record or the status, quotationNumber, inquiryId, items or
\* totalAmount of a Quotation; the only fields it changes are the
\* quotationPdf and the updatedAt of the Quotation a rebuild resolved, in the
\* step that saves the pointer.
C22_Frame ==
  [][/\ inquiries' = inquiries
     /\ \A q \in QIds :
          /\ WithPointerAndTimeOf(quotations'[q], quotations[q]) = quotations[q]
          /\ quotations'[q] # quotations[q] =>
               \E r \in DOMAIN reqs : /\ reqs[r].quotation = q
                                      /\ reqs[r].pc = "save"
                                      /\ reqs'[r].nwrites = reqs[r].nwrites + 1]_vars

\* a rebuild has rewritten the pointer: the save has set updatedAt and has
\* left the other fields as they were
C22_Witness ==
  \E r \in DOMAIN reqs :
    /\ reqs[r].nwrites = 1
    /\ reqs[r].pc = "done"
    /\ LET doc == quotations[reqs[r].quotation] IN
         /\ doc.quotationPdf = reqs[r].pdfResult
         /\ doc.updatedAt = SaveInstant
         /\ doc.updatedAt # doc.createdAt
         /\ doc.status = "sent"
         /\ doc.quotationNumber = NumberOf(reqs[r].quotation)

----------------------------------------------------------------------------
(* The headers of a file answer *)

\* the download query value asks for an attachment
AsksAttachment(r) == reqs[r].download \in {S_true, <<"1">>}

\* C23: an answer that sends a file, existing or rebuilt, has Content-Type
\* application/pdf; its Content-Disposition is attachment exactly when the
\* download query value is 'true' or '1', and inline for every other value
\* and when there is none; the filename in it is the requested filename for
\* an existing file and the builder's filename for a rebuilt one.
C23_Disposition ==
  \A r \in DOMAIN reqs :
    reqs[r].response.kind \in {"existing", "regenerated"} =>
      /\ reqs[r].response.contentType = "application/pdf"
      /\ reqs[r].response.disposition = IF AsksAttachment(r) THEN "attachment" ELSE "inline"
      /\ reqs[r].response.filename = IF reqs[r].response.kind = "existing"
                                     THEN reqs[r].filename
                                     ELSE reqs[r].pdfResult

\* a rebuilt file sent as an attachment for download=1, under the builder's
\* filename, which is not the requested one
C23_Witness ==
  \E r \in DOMAIN reqs :
    /\ reqs[r].response.kind = "regenerated"
    /\ reqs[r].download = <<"1">>
    /\ reqs[r].response.disposition = "attachment"
    /\ reqs[r].response.filename = reqs[r].pdfResult
    /\ reqs[r].pdfResult # reqs[r].filename

----------------------------------------------------------------------------
(* One request after another *)

\* no file has been lost from the store
StoreKept == lossCount = 0

\* the request was answered with the file its own rebuild produced
RebuiltAndSent(r) ==
  /\ reqs[r].response.kind = "regenerated"
  /\ reqs[r].response.status = 200

\* C24: after a rebuild that produced the file C and sent it, a request for
\* C that arrives afterwards, no file having been lost, is served from the
\* store: its content is the content the rebuild sent, and it calls no
\* builder and writes no pointer.
C24_RoundTrip ==
  \A r1, r2 \in DOMAIN reqs :
    ( /\ RebuiltAndSent(r1)
      /\ ArrivedAfter(r2, r1)
      /\ reqs[r2].filename = reqs[r1].pdfResult
      /\ StoreKept )
    => /\ reqs[r2].existedAtCheck
       /\ reqs[r2].pc \in {"sendExisting", "done"}
       /\ reqs[r2].nbuilds = 0
       /\ reqs[r2].nwrites = 0
       /\ \A w \in ptrWrites : w.by # r2
       /\ reqs[r2].pc = "done" =>
            /\ reqs[r2].response.kind = "existing"
            /\ reqs[r2].response.status = 200
            /\ reqs[r2].response.content = reqs[r1].response.content

\* the file a rebuild produced has been served again from the store
C24_Witness ==
  \E r1, r2 \in DOMAIN reqs :
    /\ RebuiltAndSent(r1)
    /\ ~reqs[r1].existedAtCheck
    /\ ArrivedAfter(r2, r1)
    /\ reqs[r2].filename = reqs[r1].pdfResult
    /\ StoreKept
    /\ reqs[r2].response.kind = "existing"
    /\ reqs[r2].response.content = BuiltContent(reqs[r1])

\* r1 handled a request for a missing file to its end, nothing failing (it
\* sent the rebuilt file or found no record), and r2 is a request for the
\* same filename that arrived afterwards
HandledTwice(r1, r2) ==
  /\ reqs[r1].pc = "done"
  /\ ~reqs[r1].existedAtCheck
  /\ reqs[r1].response.status \in {200, 404}
  /\ ArrivedAfter(r2, r1)
  /\ reqs[r2].filename = reqs[r1].filename

\* the pointers of the Quotations
Pointers == [q \in QIds |-> quotations[q].quotationPdf]

\* C25 (as stated): when a request for a missing filename has been handled
\* and the same request is handled again afterwards, no file being lost, the
\* second handling adds no file to the store and changes no pointer, the
\* builder naming the rebuild of the same Quotation the same both times.
C25_SequentialIdempotence ==
  [][\A r1, r2 \in DOMAIN reqs :
       ( /\ HandledTwice(r1, r2)
         /\ StoreKept
         /\ reqs'[r2] # reqs[r2]
         /\ ( reqs'[r2].quotation = reqs[r1].quotation /\ reqs'[r2].pdfResult # Null )
            => reqs'[r2].pdfResult = reqs[r1].pdfResult )
       => /\ DOMAIN store' = DOMAIN store
          /\ Pointers' = Pointers]_vars

\* C33 (as stated): when a request for a missing filename has ended with the
\* regenerated PDF, a request for the same filename that arrives afterwards
\* and has ended was answered 200 and not 404, only rebuilds having written
\* to the records
C33_KeepsResolving ==
  \A r1, r2 \in DOMAIN reqs :
    ( /\ RebuiltAndSent(r1)
      /\ ~reqs[r1].existedAtCheck
      /\ ArrivedAfter(r2, r1)
      /\ reqs[r2].filename = reqs[r1].filename
      /\ reqs[r2].pc = "done" )
    => /\ reqs[r2].response.status # 404
       /\ reqs[r2].response.status = 200

----------------------------------------------------------------------------
(* Who writes a pointer *)

\* r has resolved its Quotation and its pointer save has not committed
RebuildInFlight(r) ==
  /\ reqs[r].quotation # "none"
  /\ reqs[r].pc \in {"loadInquiry", "build", "verify", "save"}

\* this step is a pointer save of request r that wrote
WritesPointer(r) == reqs'[r].nwrites = reqs[r].nwrites + 1

\* C26: while a rebuild for a Quotation is in flight (the Quotation resolved,
\* the pointer save not yet committed), no other request writes the pointer
\* of that Quotation
C26_ExclusivePointerOwnership ==
  [][\A o, r \in DOMAIN reqs :
       ( /\ o # r
         /\ RebuildInFlight(o)
         /\ reqs[r].quotation = reqs[o].quotation )
       => ~WritesPointer(r)]_vars

\* a rebuild for one Quotation is in flight and b has resolved another
\* Quotation and is not yet answered
AcrossRecords(a, b) ==
  /\ a # b
  /\ RebuildInFlight(a)
  /\ reqs[b].quotation \notin {"none", reqs[a].quotation}
  /\ reqs[b].pc \notin {"idle", "done"}

\* C27: a request that has resolved Quotation B can take its next step in
\* every state, whatever the state of a rebuild in flight for another
\* Quotation A, and no step of the request rebuilding A changes B's pointer
C27_IndependenceAcrossRecords ==
  /\ [](\A a, b \in 1..MaxRequests :
          (a \in DOMAIN reqs /\ b \in DOMAIN reqs /\ AcrossRecords(a, b))
          => ENABLED RebuildStep(b))
  /\ [][\A a, b \in 1..MaxRequests :
          ( /\ a \in DOMAIN reqs /\ b \in DOMAIN reqs
            /\ AcrossRecords(a, b)
            /\ reqs'[a] # reqs[a] )
          => quotations'[reqs[b].quotation].quotationPdf
               = quotations[reqs[b].quotation].quotationPdf]_vars

\* two rebuilds for two Quotations overlapped, the first has written its
\* pointer and the second was answered with its own regenerated PDF
C27_Witness ==
  \E a, b \in DOMAIN reqs :
    /\ a # b
    /\ b \in reqs[a].overlap \/ a \in reqs[b].overlap
    /\ reqs[a].quotation # "none"
    /\ reqs[b].quotation \notin {"none", reqs[a].quotation}
    /\ reqs[a].nwrites = 1
    /\ Regenerated(b)
    /\ reqs[b].nbuilds = 1

----------------------------------------------------------------------------
(* Exceptions *)

\* C28: a request one of whose awaited calls rejected (a record lookup, the
\* inquiry lookup, the builder call or the pointer save) has ended and has
\* an answer; unless the timeout had answered it before, the answer is a 500
\* with success false, the message of the catch and the text of the error
C28_FailureClassified ==
  \A r \in DOMAIN reqs :
    reqs[r].threw # "none" =>
      /\ reqs[r].pc = "done"
      /\ reqs[r].response # NoResponse
      /\ reqs[r].response.kind # "unavailable" =>
           /\ reqs[r].response.status = 500
           /\ reqs[r].response.contentType = "application/json"
           /\ reqs[r].response.body.success = "false"
           /\ reqs[r].response.body.message = "Error regenerating PDF"
           /\ reqs[r].response.body.error = reqs[r].threw

\* the pointer save of a request that waited for the handler rejected and
\* the request was answered by the catch
C28_Witness ==
  \E r \in DOMAIN reqs :
    /\ reqs[r].threw = "save"
    /\ reqs[r].gate = "polled"
    /\ reqs[r].response.status = 500
    /\ reqs[r].response.body.error = "save"

----------------------------------------------------------------------------
(* The numbers of the documents *)

\* C29: a step changes the quotationNumber of a document only when the
\* document is new and has no number, and then to a generated number; a save
\* of a document that has a number, the pointer save of a rebuild included,
\* leaves the number as it is; the hook numbers a document at most once
C29_QuotationNumberOnce ==
  /\ [][ /\ \A q \in QIds :
              ~IsFalsy(quotations[q].quotationNumber)
              => quotations'[q].quotationNumber = quotations[q].quotationNumber
         /\ drafts'.quotation.doc.quotationNumber # drafts.quotation.doc.quotationNumber
            => /\ drafts.quotation.isNew
               /\ IsFalsy(drafts.quotation.doc.quotationNumber)
               /\ \E d \in Dates, n \in Randoms :
                    drafts'.quotation.doc.quotationNumber = GeneratedQuotationNumber(d, n)
       ]_vars
  /\ [](drafts.quotation.generated <= 1)

\* a document was numbered by its first save and saved again, and a rebuild
\* has saved a pointer
C29_Witness ==
  /\ drafts.quotation.generated = 1
  /\ drafts.quotation.saves = 2
  /\ ~drafts.quotation.isNew
  /\ \E r \in DOMAIN reqs : reqs[r].nwrites = 1

\* C30: a step changes the inquiryNumber of an Inquiry only when the Inquiry
\* is new and has no number, and then to a generated number; the two hooks of
\* one save give it at most one number, and no later save changes it
C30_InquiryNumberImmutable ==
  /\ [][ drafts'.inquiry.doc.inquiryNumber # drafts.inquiry.doc.inquiryNumber
         => /\ drafts.inquiry.isNew
            /\ IsFalsy(drafts.inquiry.doc.inquiryNumber)
            /\ \E d \in Dates, n \in Randoms :
                 drafts'.inquiry.doc.inquiryNumber = GeneratedInquiryNumber(d, n)
            /\ drafts'.inquiry.generated = drafts.inquiry.generated + 1
       ]_vars
  /\ [](drafts.inquiry.generated <= 1)

\* an Inquiry was numbered in its first save, by the first of the two hooks,
\* and saved again
C30_Witness ==
  /\ drafts.inquiry.generated = 1
  /\ drafts.inquiry.saves = 2
  /\ ~drafts.inquiry.isNew

----------------------------------------------------------------------------
(* The metadata handed to the builder *)

\* C31: the totalAmount, validUntil and terms prepared for the builder are
\* those stored on the resolved Quotation, an absent or empty validUntil or
\* terms included
C31_MetadataVerbatim ==
  \A r \in DOMAIN reqs :
    reqs[r].meta # NoMeta =>
      /\ reqs[r].meta.totalAmount = quotations[reqs[r].quotation].totalAmount
      /\ reqs[r].meta.validUntil = DateAfter(quotations[reqs[r].quotation].validUntil, 0)
      /\ reqs[r].meta.terms = quotations[reqs[r].quotation].terms

----------------------------------------------------------------------------
(* One answer for a request *)

\* C32: the answer of a request, once started, is the only one: no later
\* step of the poll, the timeout, the handler or a send callback changes it,
\* so the 503, an error body and a PDF send exclude each other
C32_OneResponse ==
  [][\A r \in DOMAIN reqs :
       HeadersSent(reqs[r]) => reqs'[r].response = reqs[r].response]_vars

\* the timeout answered 503 while the handler was working, and the handler
\* then came to the send of the regenerated PDF
C32_Witness ==
  \E r \in DOMAIN reqs :
    /\ reqs[r].response.status = 503
    /\ reqs[r].pc = "done"
    /\ reqs[r].outcome = "regenerated"

----------------------------------------------------------------------------
(* The Inquiry that is missing *)

\* C34: a request whose Quotation is resolved, whose Inquiry lookup has
\* returned, and whose Quotation's inquiryId is neither the identifier nor the
\* number of any Inquiry has ended with 404 'Inquiry not found', the body
\* naming the Quotation and its inquiryId; it has called no builder, has no
\* file of its own and has saved no pointer
C34_MissingInquiry ==
  \A r \in DOMAIN reqs :
    ( /\ InquiryLookupOver(r)
      /\ \A i \in inquiries :
           quotations[reqs[r].quotation].inquiryId \notin {i._id, i.inquiryNumber} )
    => /\ reqs[r].pc = "done"
       /\ reqs[r].response.status = 404
       /\ reqs[r].response.kind = "inquiry-not-found"
       /\ reqs[r].response.body.success = "false"
       /\ reqs[r].response.body.about =
            [q |-> reqs[r].quotation,
             inquiry |-> quotations[reqs[r].quotation].inquiryId]
       /\ reqs[r].nbuilds = 0
       /\ reqs[r].pdfResult = Null
       /\ reqs[r].nwrites = 0
       /\ \A w \in ptrWrites : w.by # r
       /\ quotations[reqs[r].quotation].quotationPdf = reqs[r].docPdf
       /\ everStored \subseteq {NameTs}

\* a Quotation was resolved whose inquiryId is an identifier that names no
\* Inquiry of the collection
C34_Witness ==
  \E r \in DOMAIN reqs :
    /\ reqs[r].response.kind = "inquiry-not-found"
    /\ reqs[r].via # "none"
    /\ quotations[reqs[r].quotation].inquiryId = OidC

----------------------------------------------------------------------------
(* What the interceptor takes *)

PassedOn(r) == reqs[r].pc \in {"next", "static", "skipped"}

\* C35: a request below either mount whose path starts with /quotations/ is
\* taken by the interceptor, handed to the handler or kept for the wait, and
\* is never passed on to the static files; a request with any other path is
\* passed on as it came and never reaches the handler
C35_InterceptorExclusivity ==
  \A r \in DOMAIN reqs :
    (reqs[r].path # Null /\ reqs[r].pc # "idle") =>
      IF StartsWith(reqs[r].path, QuotationsPrefix)
      THEN /\ ~PassedOn(r)
           /\ reqs[r].gate \in {"direct", "waiting", "polled", "timedOut", "late"}
           /\ QuotationsPrefix \o reqs[r].filename = reqs[r].path
      ELSE /\ PassedOn(r)
           /\ reqs[r].pc # "skipped"
           /\ reqs[r].gate = "none"
           /\ reqs[r].filename = Null
           /\ ~HandlerRan(r)
           /\ reqs[r].response = NoResponse

\* a path below /quotations/ that is not the path of a PDF file was kept for
\* the wait and then handed to the handler
C35_Witness ==
  \E r \in DOMAIN reqs :
    /\ reqs[r].path = QuotationsPrefix \o <<"n","o","t","e",".","t","x","t">>
    /\ reqs[r].gate = "polled"
    /\ reqs[r].filename = <<"n","o","t","e",".","t","x","t">>

----------------------------------------------------------------------------
(* A file lost around the existence check *)

\* the file of the request was in the store at the existence check and is
\* gone before the send
LostBeforeSend(r) ==
  /\ reqs[r].pc = "sendExisting"
  /\ reqs[r].existedAtCheck
  /\ reqs[r].filename \notin DOMAIN store

\* the file of the request was in the store once and is gone when the request
\* arrives
LostBeforeCheck(r) ==
  /\ reqs[r].pc = "idle"
  /\ reqs[r].filename \in everStored \ DOMAIN store

\* C36: the next step of a request whose file was lost between the existence
\* check and the send ends it with the 500 'Error sending PDF file', no
\* answer having been sent before, with no query run, no builder call and no
\* pointer written; the arrival of a request whose file was lost before the
\* check starts the lookup of the rebuild path
C36_LossAroundCheck ==
  [][\A r \in DOMAIN reqs :
       /\ (LostBeforeSend(r) /\ reqs'[r] # reqs[r] /\ ~HeadersSent(reqs[r]))
          => /\ reqs'[r].pc = "done"
             /\ reqs'[r].response.status = 500
             /\ reqs'[r].response.kind = "send-error"
             /\ reqs'[r].response.body.success = "false"
             /\ reqs'[r].response.body.message = "Error sending PDF file"
             /\ reqs'[r].tried = <<>>
             /\ reqs'[r].quotation = NoQuotation
             /\ reqs'[r].nbuilds = 0
             /\ reqs'[r].nwrites = 0
             /\ quotations' = quotations
             /\ store' = store
       /\ (LostBeforeCheck(r) /\ reqs'[r] # reqs[r])
          => /\ ~reqs'[r].existedAtCheck
             /\ reqs'[r].pc = "exact"
     ]_vars

\* a request was answered with the send error after its file was lost
C36_Witness ==
  \E r \in DOMAIN reqs :
    /\ lossCount = 1
    /\ reqs[r].pc = "done"
    /\ reqs[r].existedAtCheck
    /\ reqs[r].response.kind = "send-error"
    /\ reqs[r].response.status = 500

====
